---------------------------- MODULE Spec2Model ----------------------------
(***************************************************************************)
(* Clock-domain-crossing logic of no2migen:                                *)
(*   - NitroMuAcmXClk        (src/src/no2migen/migen.py, litex.py)         *)
(*   - NitroUSB bus bridge   (src/src/no2migen/litex.py)                   *)
(*   - NitroMuAcmAsync / NitroMuAcmBuffered (src/src/no2migen/migen.py)    *)
(*                                                                         *)
(* Every clock domain is a set of registers that all take their next value *)
(* on a tick of that domain, computed from the values before the tick.     *)
(* The two domains tick in any order, or on the same instant.  A bit is    *)
(* FALSE/TRUE for 0/1.                                                     *)
(***************************************************************************)
EXTENDS Integers, Sequences, FiniteSets, TLC

(***************************************************************************)
(* Bounds of the model.                                                    *)
(***************************************************************************)
\* Number of stream items the producer of the stand-alone crossing presents.
MaxItems == 3

\* Payload bytes and (byte, boundary-marker) items.
Data == {65, 66, 67}
Bit  == BOOLEAN
Item == [data : Data, last : Bit]

VARIABLES
    \* ---- NitroMuAcmXClk, stand-alone, with its producer and consumer ----
    xclk,        \* the registers of one NitroMuAcmXClk
    in_valid,    \* producer, 'in_' domain
    in_data,
    in_last,
    out_ready,   \* consumer, 'out' domain
    presented,   \* history: items the producer has put on in_data/in_last
    accepted,    \* history: number of in_ cycles with in_valid & in_ready
    delivered    \* history: (out_data, out_last) sampled with out_valid & out_ready

VARIABLES
    \* ---- NitroUSB bus bridge (sync=False) ----
    bus,              \* Wishbone initiator outputs: cyc, stb, adr, dat_w, we ('sys')
    hs_cyc_d,         \* 'sys'
    hs_ack_d,         \* 'sys'
    b_ack_ep,         \* 'sys'
    ps_req_toggle_i,  \* ps_req, source side ('sys')
    ps_ack_dst,       \* ps_ack, destination side ('sys')
    ep_rx_data_1,     \* endpoint buffer read data ('sys', driven by the usb core)
    ub_cyc,           \* 'usb_48'
    b_rdata_core,     \* bits [0:16], 'usb_48'
    ps_req_dst,       \* ps_req, destination side ('usb_48')
    ps_ack_toggle_i,  \* ps_ack, source side ('usb_48')
    ub_ack,           \* responder (usb core) outputs, 'usb_48'
    ub_rdata,
    inflight,         \* history: request pulses raised minus acknowledges seen in sys
    ubcycs,           \* history: risings of ub_cyc minus acknowledges seen in sys
    unseen,           \* history: ub_ack cycles minus acknowledges seen in sys
    acked_rdata,      \* history: ub_rdata in the latest cycle with ub_ack
    issued,           \* history: adr, we, dat_w in the cycle of the latest request pulse
    first_cycle       \* history: this sys cycle is the first one of a bus transaction

VARIABLES
    \* ---- pulse crossings usb_48 -> sys: ps_boot (NitroMuAcmAsync), ps_sof (NitroUSB) ----
    core_bootloader_req,  \* muacm core output, 'usb_48'
    ps_boot_toggle_i,     \* 'usb_48'
    ps_boot_dst,          \* 'sys'
    u_sof,                \* usb core output, 'usb_48'
    ps_sof_toggle_i,      \* 'usb_48'
    ps_sof_dst,           \* 'sys'
    boot_raised,          \* history: usb_48 cycles with core.bootloader_req = 1
    boot_seen,            \* history: sys cycles with bootloader_req = 1
    sof_raised,           \* history: usb_48 cycles with u_sof = 1
    sof_seen,             \* history: sys cycles with sof = 1
    boot_early,           \* history: pulses taken while the previous toggle was unsampled
    boot_cancelled,       \* history: of those, toggles that undid the previous one
    sof_early,
    sof_cancelled

VARIABLES
    \* ---- level crossings: flush levels (NitroMuAcmAsync), irq (NitroUSB) ----
    in_flush_now,     \* user level, 'sys'
    in_flush_time,    \* user level, 'sys'
    flush_now_regs,   \* MultiReg(self.in_flush_now, core.in_flush_now)
    flush_time_regs,  \* MultiReg(self.in_flush_time, core.in_flush_time)
    u_irq,            \* usb core output, 'usb_48'
    irq_regs,         \* MultiReg(u_irq, self.irq)
    sys_phase,        \* history: flips on every sys tick
    usb_phase,        \* history: flips on every usb_48 tick
    u_irq_hist,       \* history: u_irq at the latest sys tick and at the one before
    u_irq_stable      \* history: sys ticks (up to 2) since u_irq last changed

VARIABLES
    \* ---- NitroMuAcmBuffered(sync=False): FIFOs around NitroMuAcmAsync ----
    buf_in_valid,     \* user -> in_valid ('sys')
    buf_in_idx,       \* index of the item the user has on in_data/in_last
    buf_out_ready,    \* user -> out_ready ('sys')
    fifo_in,          \* fifo_in  = SyncFIFOBuffered(9, fifo_depth) ('sys')
    fifo_out,         \* fifo_out = SyncFIFOBuffered(9, fifo_depth) ('sys')
    xin,              \* NitroMuAcmXClk in_ = sys, out = usb_48
    xout,             \* NitroMuAcmXClk in_ = usb_48, out = sys
    muacm_in_ready,   \* muacm core -> in_ready ('usb_48')
    muacm_out_valid,  \* muacm core -> out_valid ('usb_48')
    muacm_out_idx,    \* index of the item the core has on out_data/out_last
    buf_pushed,       \* history: items with in_valid & in_ready (user side)
    core_rcvd,        \* history: items the core took (in_valid & in_ready at the core)
    core_sent,        \* history: number of core cycles with out_valid & out_ready
    buf_rcvd,         \* history: items with out_valid & out_ready (user side)
    fin_popped,       \* history: fifo_in.dout in the cycles with fin.re
    fout_written,     \* history: fifo_out.din in the cycles with fout.we
    wrapper,          \* the stream wrapper built: NitroMuAcmBuffered or NitroMuAcmUart
    sync,             \* the constructor argument `sync' of the build that runs
    sync_result       \* history: what the build with sync=True delivered

xclkVars == <<xclk, in_valid, in_data, in_last, out_ready,
              presented, accepted, delivered>>

busSysVars == <<bus, hs_cyc_d, hs_ack_d, b_ack_ep, ps_req_toggle_i, ps_ack_dst,
                ep_rx_data_1, issued>>
busUsbVars == <<ub_cyc, b_rdata_core, ps_req_dst, ps_ack_toggle_i, ub_ack,
                ub_rdata, acked_rdata>>
busVars == <<busSysVars, busUsbVars, inflight, ubcycs, unseen, first_cycle>>

pulseUsbVars == <<core_bootloader_req, ps_boot_toggle_i, boot_raised,
                  u_sof, ps_sof_toggle_i, sof_raised>>
pulseSysVars == <<ps_boot_dst, boot_seen, ps_sof_dst, sof_seen>>
pulseHistVars == <<boot_early, boot_cancelled, sof_early, sof_cancelled>>
pulseVars == <<pulseUsbVars, pulseSysVars, pulseHistVars>>

levelVars == <<in_flush_now, in_flush_time, flush_now_regs, flush_time_regs,
               u_irq, irq_regs, sys_phase, usb_phase, u_irq_hist, u_irq_stable>>

bufSysVars == <<buf_in_valid, buf_in_idx, buf_out_ready, fifo_in, fifo_out,
                buf_pushed, buf_rcvd, fin_popped, fout_written>>
bufUsbVars == <<muacm_in_ready, muacm_out_valid, muacm_out_idx, core_rcvd, core_sent>>
buildVars == <<wrapper, sync, sync_result>>
bufVars == <<bufSysVars, bufUsbVars, xin, xout, buildVars>>

\* The registers and histories of the bootloader_req crossing, and the
\* rest of the pulse crossings.
bootUsbVars == <<core_bootloader_req, ps_boot_toggle_i, boot_raised>>
bootSysVars == <<ps_boot_dst, boot_seen>>
sofVars == <<u_sof, ps_sof_toggle_i, sof_raised, ps_sof_dst, sof_seen>>

vars == <<xclkVars, busVars, pulseVars, levelVars, bufVars>>

\* What a step of one component leaves alone.
notXClkVars  == <<busVars, pulseVars, levelVars, bufVars>>
notBusVars   == <<xclkVars, pulseVars, levelVars, bufVars>>
notPulseVars == <<xclkVars, busVars, levelVars, bufVars>>
notLevelVars == <<xclkVars, busVars, pulseVars, bufVars>>
notBufVars   == <<xclkVars, busVars, pulseVars, levelVars>>

(***************************************************************************)
(* NitroMuAcmXClk                                                          *)
(***************************************************************************)
\* Registers after reset: every Signal() resets to 0.
XClkReset ==
    [ send_in       |-> FALSE,
      ack_sync_in   |-> [i \in 0..1 |-> FALSE],
      in_ready      |-> FALSE,
      send_sync_out |-> [i \in 0..1 |-> FALSE],
      out_valid     |-> FALSE,
      ack_out       |-> FALSE ]

\* Variant: send follows in_valid instead of latching it.
send_in_next_follow(x, valid) ==
    (valid /\ ~x.in_ready) /\ ~x.ack_sync_in[0]

\* self.sync.in_: send_in.eq((send_in | (in_valid & ~in_ready)) & ~ack_sync_in[0])
send_in_next(x, valid) ==
    (x.send_in \/ (valid /\ ~x.in_ready)) /\ ~x.ack_sync_in[0]

\* self.sync.in_: ack_sync_in[1].eq(ack_sync_in[0]); ack_sync_in[0].eq(ack_out)
ack_sync_in_next(x) ==
    [i \in 0..1 |-> IF i = 0 THEN x.ack_out ELSE x.ack_sync_in[0]]

\* Variant: in_ready follows the synchronized ack as a level (no edge detect).
in_ready_next_level(x) ==
    x.ack_sync_in[0]

\* self.sync.in_: in_ready.eq(ack_sync_in[0] & ~ack_sync_in[1])
in_ready_next(x) ==
    x.ack_sync_in[0] /\ ~x.ack_sync_in[1]

\* self.sync.out: send_sync_out[1].eq(send_sync_out[0]); send_sync_out[0].eq(send_in)
send_sync_out_next(x) ==
    [i \in 0..1 |-> IF i = 0 THEN x.send_in ELSE x.send_sync_out[0]]

\* Variant: out_valid is set by the level of the synchronized send.
out_valid_next_level(x, ready) ==
    (x.out_valid /\ ~ready) \/ x.send_sync_out[0]

\* Variant: out_valid is not held under backpressure.
out_valid_next_nohold(x, ready) ==
    x.send_sync_out[0] /\ ~x.send_sync_out[1]

\* self.sync.out: out_valid.eq((out_valid & ~out_ready) | (send_sync_out[0] & ~send_sync_out[1]))
out_valid_next(x, ready) ==
    (x.out_valid /\ ~ready) \/ (x.send_sync_out[0] /\ ~x.send_sync_out[1])

\* Variant: ack_out is set by out_valid alone, without out_ready.
ack_out_next_noready(x, ready) ==
    (x.ack_out /\ x.send_sync_out[0]) \/ x.out_valid

\* Variant: ack_out is never cleared.
ack_out_next_sticky(x, ready) ==
    x.ack_out \/ (x.out_valid /\ ready)

\* self.sync.out: ack_out.eq((ack_out & send_sync_out[0]) | (out_valid & out_ready))
ack_out_next(x, ready) ==
    (x.ack_out /\ x.send_sync_out[0]) \/ (x.out_valid /\ ready)

\* Variant: ack_out is also written by the 'in_' domain.
XClkTickIn_two_writers(x, valid) ==
    [x EXCEPT !.send_in     = send_in_next(x, valid),
              !.ack_sync_in = ack_sync_in_next(x),
              !.in_ready    = in_ready_next(x),
              !.ack_out     = x.ack_out /\ ~x.in_ready]

\* One tick of the 'in_' domain: its four registers, nothing else.
XClkTickIn(x, valid) ==
    [x EXCEPT !.send_in     = send_in_next(x, valid),
              !.ack_sync_in = ack_sync_in_next(x),
              !.in_ready    = in_ready_next(x)]

\* One tick of the 'out' domain.
XClkTickOut(x, ready) ==
    [x EXCEPT !.send_sync_out = send_sync_out_next(x),
              !.out_valid     = out_valid_next(x, ready),
              !.ack_out       = ack_out_next(x, ready)]

\* Both domains tick on the same instant: each samples the other's old value.
XClkTickBoth(x, valid, ready) ==
    [XClkTickIn(x, valid) EXCEPT
              !.send_sync_out = send_sync_out_next(x),
              !.out_valid     = out_valid_next(x, ready),
              !.ack_out       = ack_out_next(x, ready)]

\* self.comb: out_data.eq(in_data), out_last.eq(in_last)
out_data == in_data
out_last == in_last

(***************************************************************************)
(* Producer on the in_ side and consumer on the out side of the            *)
(* stand-alone crossing (AXI-Stream style ready/valid).                    *)
(***************************************************************************)
\* The producer's registers after an in_ tick.  It holds in_valid, in_data
\* and in_last from assertion until a cycle with in_ready = 1.
ProducerStep ==
    \/ \* waiting for in_ready: hold
       /\ in_valid /\ ~xclk.in_ready
       /\ UNCHANGED <<in_valid, in_data, in_last, presented, accepted>>
    \/ \* transfer; go idle, in_data/in_last are don't-care
       /\ in_valid /\ xclk.in_ready
       /\ accepted' = accepted + 1
       /\ in_valid' = FALSE
       /\ in_data' \in Data
       /\ in_last' \in Bit
       /\ UNCHANGED presented
    \/ \* transfer; present the next item at once
       /\ in_valid /\ xclk.in_ready
       /\ Len(presented) < MaxItems
       /\ accepted' = accepted + 1
       /\ in_valid' = TRUE
       /\ in_data' \in Data
       /\ in_last' \in Bit
       /\ presented' = Append(presented, [data |-> in_data', last |-> in_last'])
    \/ \* idle
       /\ ~in_valid
       /\ UNCHANGED <<in_valid, in_data, in_last, presented, accepted>>
    \/ \* idle; present a new item
       /\ ~in_valid
       /\ Len(presented) < MaxItems
       /\ in_valid' = TRUE
       /\ in_data' \in Data
       /\ in_last' \in Bit
       /\ presented' = Append(presented, [data |-> in_data', last |-> in_last'])
       /\ UNCHANGED accepted

\* The consumer samples (out_data, out_last) in a cycle with out_valid &
\* out_ready, and drives out_ready as it likes.
ConsumerStep ==
    /\ out_ready' \in Bit
    /\ delivered' = IF xclk.out_valid /\ out_ready
                    THEN Append(delivered, [data |-> out_data, last |-> out_last])
                    ELSE delivered

XTickIn ==
    /\ xclk' = XClkTickIn(xclk, in_valid)
    /\ ProducerStep
    /\ UNCHANGED <<out_ready, delivered>>
    /\ UNCHANGED notXClkVars

XTickOut ==
    /\ xclk' = XClkTickOut(xclk, out_ready)
    /\ ConsumerStep
    /\ UNCHANGED <<in_valid, in_data, in_last, presented, accepted>>
    /\ UNCHANGED notXClkVars

XTickBoth ==
    /\ xclk' = XClkTickBoth(xclk, in_valid, out_ready)
    /\ ProducerStep
    /\ ConsumerStep
    /\ UNCHANGED notXClkVars

XClkInit ==
    /\ xclk = XClkReset
    /\ in_valid = FALSE
    /\ in_data \in Data
    /\ in_last \in Bit
    /\ out_ready \in Bit
    /\ presented = <<>>
    /\ accepted = 0
    /\ delivered = <<>>

\* The crossing in reset with nothing connected (other specifications).
XClkParked ==
    /\ xclk = XClkReset
    /\ in_valid = FALSE
    /\ in_data = 65
    /\ in_last = FALSE
    /\ out_ready = FALSE
    /\ presented = <<>>
    /\ accepted = 0
    /\ delivered = <<>>

XClkNext == XTickIn \/ XTickOut \/ XTickBoth

\* A producer that does not follow the ready/valid rule: it drives in_valid
\* as it likes on every in_ tick, also withdrawing it before in_ready.
FreeProducerStep ==
    /\ in_valid' \in Bit
    /\ UNCHANGED <<in_data, in_last, presented, accepted>>

\* The consumer of that test bench; nothing is recorded.
FreeConsumerStep ==
    /\ out_ready' \in Bit
    /\ UNCHANGED delivered

XFreeTickIn ==
    /\ xclk' = XClkTickIn(xclk, in_valid)
    /\ FreeProducerStep
    /\ UNCHANGED <<out_ready, delivered>>
    /\ UNCHANGED notXClkVars

XFreeTickOut ==
    /\ xclk' = XClkTickOut(xclk, out_ready)
    /\ FreeConsumerStep
    /\ UNCHANGED <<in_valid, in_data, in_last, presented, accepted>>
    /\ UNCHANGED notXClkVars

XFreeTickBoth ==
    /\ xclk' = XClkTickBoth(xclk, in_valid, out_ready)
    /\ FreeProducerStep
    /\ FreeConsumerStep
    /\ UNCHANGED notXClkVars

(***************************************************************************)
(* migen.genlib.cdc primitives used by the wrappers.                       *)
(***************************************************************************)
\* MultiReg(i, o): two registers in the receiving domain, o is the second.
MultiRegReset == [k \in 0..1 |-> FALSE]
MultiRegNext(regs, i) == [k \in 0..1 |-> IF k = 0 THEN i ELSE regs[0]]
MultiRegOut(regs) == regs[1]

\* PulseSynchronizer(idomain, odomain).  Source side: toggle_i flips on every
\* cycle with i = 1.  Destination side: MultiReg of toggle_i gives toggle_o,
\* toggle_o_r is toggle_o one cycle late, o = toggle_o ^ toggle_o_r.
PulseDstReset == [regs |-> MultiRegReset, toggle_o_r |-> FALSE]
PulseSrcNext(toggle_i, i) == IF i THEN ~toggle_i ELSE toggle_i
PulseDstNext(dst, toggle_i) ==
    [regs       |-> MultiRegNext(dst.regs, toggle_i),
     toggle_o_r |-> MultiRegOut(dst.regs)]
PulseOut(dst) == MultiRegOut(dst.regs) # dst.toggle_o_r

(***************************************************************************)
(* NitroUSB, sync=False: Wishbone bridge from 'sys' to 'usb_48'.           *)
(***************************************************************************)
\* Sample values of bus.adr (word address), bus.dat_w and ub_rdata.
\* 4 = 0x0004, 16 = 0x0010, 4100 = 0x1004 (bit 12 set), 8196 = 0x2004 (bit 13).
Addrs  == {4, 16, 4100, 8196}
\* A 32-bit bus word is written as its two 16-bit halves: hi = bits [16:32],
\* lo = bits [0:16].
Word(h, l) == [hi |-> h, lo |-> l]
WDatas  == {Word(0, 4660), Word(57005, 48879)}     \* 0x00001234, 0xDEADBEEF
RDatas  == {0, 4660, 43981}                        \* 0, 0x1234, 0xABCD (16 bit)
EpDatas == {Word(0, 0), Word(4660, 22136)}         \* 0, 0x12345678

AdrBit13(a) == (a \div 8192) % 2 = 1

\* Variant: the endpoint path does not decode bus.adr[13].
b_cyc_ep_all == bus.cyc /\ bus.stb

\* Bus muxing (comb)
b_cyc_ep   == bus.cyc /\ bus.stb /\ AdrBit13(bus.adr)
b_cyc_core == bus.cyc /\ bus.stb /\ ~AdrBit13(bus.adr)

\* Variant: the address is wired across 13 bits wide.
ub_addr_wide == bus.adr % 8192

\* Wishbone fields are wired across (comb)
ub_addr  == bus.adr % 4096
ub_wdata == bus.dat_w.lo
ub_we    == bus.we

\* Handshake (comb)
hs_cyc   == b_cyc_core
hs_ack   == PulseOut(ps_ack_dst)
ps_req_o == PulseOut(ps_req_dst)
ps_ack_i == ub_ack

\* Variant: the request is raised on every cycle of a pending transaction.
ps_req_i_level == hs_cyc

\* Variant: the request is re-armed by the acknowledge itself, not its delay.
ps_req_i_early == hs_cyc /\ (~hs_cyc_d \/ hs_ack)

\* Variant: no re-arm after an acknowledge (back-to-back is not seen).
ps_req_i_noback == hs_cyc /\ ~hs_cyc_d

\* ps_req.i.eq(hs_cyc & (~hs_cyc_d | hs_ack_d))
ps_req_i == hs_cyc /\ (~hs_cyc_d \/ hs_ack_d)

\* Variant: the core acknowledge lasts two sys cycles.
b_ack_core_stretched == hs_ack \/ hs_ack_d

\* b_ack_core.eq(hs_ack)
b_ack_core == hs_ack

\* Bus muxing (comb); b_rdata_core[16:width] is 0
b_rdata_ep == ep_rx_data_1
bus_ack    == b_ack_core \/ b_ack_ep
bus_dat_r  == IF b_ack_ep THEN b_rdata_ep ELSE Word(0, b_rdata_core)

\* Variant: ub_cyc is not cleared by the acknowledge.
ub_cyc_next_sticky == ub_cyc \/ ps_req_o

\* Variant: ub_cyc is not held after the request strobe.
ub_cyc_next_nohold == ps_req_o /\ ~ub_ack

\* self.sync.usb_48: ub_cyc.eq((ub_cyc | ps_req.o) & ~ub_ack)
ub_cyc_next == (ub_cyc \/ ps_req_o) /\ ~ub_ack

\* Variant: the read data register follows ub_rdata on every usb_48 tick.
b_rdata_core_next_always == ub_rdata

\* Variant: the read data register follows ub_rdata during the whole cycle.
b_rdata_core_next_cyc == IF ub_cyc THEN ub_rdata ELSE b_rdata_core

\* self.sync.usb_48: If(ub_ack, b_rdata_core[0:16].eq(ub_rdata))
b_rdata_core_next == IF ub_ack THEN ub_rdata ELSE b_rdata_core

\* ep_tx_data_0.eq(self.bus.dat_w), ep_tx_we_0.eq(b_ack_ep & self.bus.we)
ep_tx_data_0 == bus.dat_w
ep_tx_we_0   == b_ack_ep /\ bus.we

\* Variant: b_ack_ep follows b_cyc_ep without the ~b_ack_ep term.
b_ack_ep_next_level == b_cyc_ep

\* self.sync.sys: b_ack_ep.eq(b_cyc_ep & ~b_ack_ep)
b_ack_ep_next == b_cyc_ep /\ ~b_ack_ep

\* A new transaction put on the bus.
NewTransaction ==
    [cyc : {TRUE}, stb : {TRUE}, adr : Addrs, we : Bit, dat_w : WDatas]

\* The Wishbone initiator after a sys tick.  It keeps cyc/stb asserted until
\* a cycle with bus.ack; with `stable' it also holds adr, we and dat_w,
\* otherwise it may put another core transaction on them while waiting.
InitiatorStep(stable) ==
    \/ \* idle
       /\ ~bus.cyc
       /\ bus' = bus
    \/ \* idle; start a transaction
       /\ ~bus.cyc
       /\ bus' \in NewTransaction
    \/ \* waiting for bus.ack: hold
       /\ bus.cyc /\ ~bus_ack
       /\ bus' = bus
    \/ \* waiting for bus.ack: overwrite the request fields
       /\ ~stable
       /\ bus.cyc /\ ~bus_ack /\ ~AdrBit13(bus.adr)
       /\ bus' \in {t \in NewTransaction : ~AdrBit13(t.adr)}
       /\ bus' # bus
    \/ \* acknowledged; release the bus
       /\ bus.cyc /\ bus_ack
       /\ bus' = [bus EXCEPT !.cyc = FALSE, !.stb = FALSE]
    \/ \* acknowledged; next transaction back to back
       /\ bus.cyc /\ bus_ack
       /\ bus' \in NewTransaction

\* The registers of the 'sys' domain after a sys tick.
BusSysRegs ==
    /\ hs_cyc_d' = hs_cyc
    /\ hs_ack_d' = hs_ack
    /\ b_ack_ep' = b_ack_ep_next
    /\ ps_req_toggle_i' = PulseSrcNext(ps_req_toggle_i, ps_req_i)
    /\ ps_ack_dst' = PulseDstNext(ps_ack_dst, ps_ack_toggle_i)
    /\ ep_rx_data_1' \in EpDatas
    /\ issued' = IF ps_req_i
                 THEN [adr |-> bus.adr, we |-> bus.we, dat_w |-> bus.dat_w]
                 ELSE issued

\* The responder (usb core Wishbone port) after a usb_48 tick: it asserts
\* ub_ack only in a cycle with ub_cyc, after any delay; ub_rdata is anything
\* outside the acknowledge cycle.
ResponderStep ==
    /\ ub_ack' \in (IF ub_cyc_next THEN Bit ELSE {FALSE})
    /\ ub_rdata' \in RDatas

\* The registers of the 'usb_48' domain after a usb_48 tick.
BusUsbRegs ==
    /\ ub_cyc' = ub_cyc_next
    /\ b_rdata_core' = b_rdata_core_next
    /\ ps_req_dst' = PulseDstNext(ps_req_dst, ps_req_toggle_i)
    /\ ps_ack_toggle_i' = PulseSrcNext(ps_ack_toggle_i, ps_ack_i)
    /\ acked_rdata' = IF ub_ack THEN ub_rdata ELSE acked_rdata

B2N(b) == IF b THEN 1 ELSE 0

\* History counters; sys and usb are the domains that tick in the step.
BusHistory(sys, usb) ==
    /\ inflight' = inflight + B2N(sys /\ ps_req_i) - B2N(sys /\ hs_ack)
    /\ ubcycs' = ubcycs + B2N(usb /\ ~ub_cyc /\ ub_cyc_next) - B2N(sys /\ hs_ack)
    /\ unseen' = unseen + B2N(usb /\ ub_ack) - B2N(sys /\ hs_ack)
    /\ first_cycle' = IF sys THEN bus'.cyc /\ (~bus.cyc \/ bus_ack) ELSE first_cycle

BusTickSys ==
    /\ BusSysRegs
    /\ InitiatorStep(TRUE)
    /\ BusHistory(TRUE, FALSE)
    /\ UNCHANGED busUsbVars
    /\ UNCHANGED notBusVars

BusTickUsb ==
    /\ BusUsbRegs
    /\ ResponderStep
    /\ BusHistory(FALSE, TRUE)
    /\ UNCHANGED busSysVars
    /\ UNCHANGED notBusVars

BusTickBoth ==
    /\ BusSysRegs
    /\ InitiatorStep(TRUE)
    /\ BusUsbRegs
    /\ ResponderStep
    /\ BusHistory(TRUE, TRUE)
    /\ UNCHANGED notBusVars

\* A responder that never acknowledges.
StallResponderStep ==
    /\ ub_ack' = FALSE
    /\ ub_rdata' \in RDatas

BusStallTickUsb ==
    /\ BusUsbRegs
    /\ StallResponderStep
    /\ BusHistory(FALSE, TRUE)
    /\ UNCHANGED busSysVars
    /\ UNCHANGED notBusVars

BusStallTickBoth ==
    /\ BusSysRegs
    /\ InitiatorStep(TRUE)
    /\ BusUsbRegs
    /\ StallResponderStep
    /\ BusHistory(TRUE, TRUE)
    /\ UNCHANGED notBusVars

BusOverlapTickSys ==
    /\ BusSysRegs
    /\ InitiatorStep(FALSE)
    /\ BusHistory(TRUE, FALSE)
    /\ UNCHANGED busUsbVars
    /\ UNCHANGED notBusVars

BusOverlapTickBoth ==
    /\ BusSysRegs
    /\ InitiatorStep(FALSE)
    /\ BusUsbRegs
    /\ ResponderStep
    /\ BusHistory(TRUE, TRUE)
    /\ UNCHANGED notBusVars

\* State after reset, bus idle.
BusReset ==
    /\ bus = [cyc |-> FALSE, stb |-> FALSE, adr |-> 4, we |-> FALSE, dat_w |-> Word(0, 4660)]
    /\ hs_cyc_d = FALSE
    /\ hs_ack_d = FALSE
    /\ b_ack_ep = FALSE
    /\ ps_req_toggle_i = FALSE
    /\ ps_ack_dst = PulseDstReset
    /\ ep_rx_data_1 = Word(0, 0)
    /\ ub_cyc = FALSE
    /\ b_rdata_core = 0
    /\ ps_req_dst = PulseDstReset
    /\ ps_ack_toggle_i = FALSE
    /\ ub_ack = FALSE
    /\ ub_rdata = 0
    /\ inflight = 0
    /\ ubcycs = 0
    /\ unseen = 0
    /\ acked_rdata = 0
    /\ issued = [adr |-> 4, we |-> FALSE, dat_w |-> Word(0, 4660)]
    /\ first_cycle = FALSE

BusParked == BusReset

(***************************************************************************)
(* Pulse crossings from 'usb_48' to 'sys':                                 *)
(*   ps_boot = PulseSynchronizer("usb_48", "sys")  in NitroMuAcmAsync      *)
(*   ps_sof  = PulseSynchronizer("usb_48", "sys")  in NitroUSB             *)
(***************************************************************************)
\* Number of pulses each source raises.
MaxPulses == 3

\* ps_boot.i.eq(core.bootloader_req)
ps_boot_i == core_bootloader_req

\* Variant: the output is wired to the synchronized toggle, not the strobe.
bootloader_req_level == MultiRegOut(ps_boot_dst.regs)

\* self.bootloader_req.eq(ps_boot.o)
bootloader_req == PulseOut(ps_boot_dst)

\* ps_sof.i.eq(u_sof)
ps_sof_i == u_sof

\* Variant: sof is wired to the synchronized toggle, not the strobe.
sof_level == MultiRegOut(ps_sof_dst.regs)

\* self.sof.eq(ps_sof.o)
sof == PulseOut(ps_sof_dst)

\* A source of single-cycle pulses that observes the re-arm rule: it raises
\* a pulse only when the toggle of the previous one has been sampled by the
\* first register of the destination.
PulseSourceStep(pulse, toggle_i, dst, raised) ==
    IF ~pulse /\ dst.regs[0] = toggle_i /\ raised < MaxPulses
    THEN Bit
    ELSE {FALSE}

\* A source that ignores the re-arm rule: it raises a pulse in any cycle.
FreePulseSourceStep(pulse, raised) ==
    IF raised + B2N(pulse) < MaxPulses THEN Bit ELSE {FALSE}

\* History of pulses that break the re-arm rule; sys and usb are the domains
\* that tick in the step.  A pulse is early when it takes effect while the
\* first register of the destination has not sampled the previous toggle;
\* it cancels the previous toggle unless the destination samples on the
\* same tick.
PulseHistory(sys, usb) ==
    LET boot == usb /\ ps_boot_i /\ ps_boot_toggle_i # ps_boot_dst.regs[0]
        sofe == usb /\ ps_sof_i /\ ps_sof_toggle_i # ps_sof_dst.regs[0]
    IN  /\ boot_early' = boot_early + B2N(boot)
        /\ boot_cancelled' = boot_cancelled + B2N(boot /\ ~sys)
        /\ sof_early' = sof_early + B2N(sofe)
        /\ sof_cancelled' = sof_cancelled + B2N(sofe /\ ~sys)

PulseUsbRegs ==
    /\ ps_boot_toggle_i' = PulseSrcNext(ps_boot_toggle_i, ps_boot_i)
    /\ ps_sof_toggle_i' = PulseSrcNext(ps_sof_toggle_i, ps_sof_i)
    /\ core_bootloader_req' \in
           PulseSourceStep(core_bootloader_req, ps_boot_toggle_i, ps_boot_dst, boot_raised)
    /\ u_sof' \in PulseSourceStep(u_sof, ps_sof_toggle_i, ps_sof_dst, sof_raised)
    /\ boot_raised' = boot_raised + B2N(core_bootloader_req)
    /\ sof_raised' = sof_raised + B2N(u_sof)

PulseSysRegs ==
    /\ ps_boot_dst' = PulseDstNext(ps_boot_dst, ps_boot_toggle_i)
    /\ ps_sof_dst' = PulseDstNext(ps_sof_dst, ps_sof_toggle_i)
    /\ boot_seen' = boot_seen + B2N(bootloader_req)
    /\ sof_seen' = sof_seen + B2N(sof)

\* usb_48 registers with sources that ignore the re-arm rule.
PulseFreeUsbRegs ==
    /\ ps_boot_toggle_i' = PulseSrcNext(ps_boot_toggle_i, ps_boot_i)
    /\ ps_sof_toggle_i' = PulseSrcNext(ps_sof_toggle_i, ps_sof_i)
    /\ core_bootloader_req' \in FreePulseSourceStep(core_bootloader_req, boot_raised)
    /\ u_sof' \in FreePulseSourceStep(u_sof, sof_raised)
    /\ boot_raised' = boot_raised + B2N(core_bootloader_req)
    /\ sof_raised' = sof_raised + B2N(u_sof)

PulseTickUsb ==
    /\ PulseUsbRegs
    /\ PulseHistory(FALSE, TRUE)
    /\ UNCHANGED pulseSysVars
    /\ UNCHANGED notPulseVars

PulseTickSys ==
    /\ PulseSysRegs
    /\ PulseHistory(TRUE, FALSE)
    /\ UNCHANGED pulseUsbVars
    /\ UNCHANGED notPulseVars

PulseTickBoth ==
    /\ PulseUsbRegs
    /\ PulseSysRegs
    /\ PulseHistory(TRUE, TRUE)
    /\ UNCHANGED notPulseVars

PulseFreeTickUsb ==
    /\ PulseFreeUsbRegs
    /\ PulseHistory(FALSE, TRUE)
    /\ UNCHANGED pulseSysVars
    /\ UNCHANGED notPulseVars

PulseFreeTickBoth ==
    /\ PulseFreeUsbRegs
    /\ PulseSysRegs
    /\ PulseHistory(TRUE, TRUE)
    /\ UNCHANGED notPulseVars

PulseReset ==
    /\ core_bootloader_req = FALSE
    /\ ps_boot_toggle_i = FALSE
    /\ ps_boot_dst = PulseDstReset
    /\ u_sof = FALSE
    /\ ps_sof_toggle_i = FALSE
    /\ ps_sof_dst = PulseDstReset
    /\ boot_raised = 0
    /\ boot_seen = 0
    /\ sof_raised = 0
    /\ sof_seen = 0
    /\ boot_early = 0
    /\ boot_cancelled = 0
    /\ sof_early = 0
    /\ sof_cancelled = 0

(***************************************************************************)
(* Level crossings:                                                        *)
(*   MultiReg(self.in_flush_now,  core.in_flush_now)   in NitroMuAcmAsync  *)
(*   MultiReg(self.in_flush_time, core.in_flush_time)  in NitroMuAcmAsync  *)
(*   MultiReg(u_irq, self.irq)                         in NitroUSB         *)
(* None of the three names an odomain, so each chain is clocked by         *)
(* MultiReg's default output domain, "sys".                                *)
(***************************************************************************)
FlushOdomain == "sys"
IrqOdomain   == "sys"

core_in_flush_now  == MultiRegOut(flush_now_regs)
core_in_flush_time == MultiRegOut(flush_time_regs)

\* Variant: irq is taken after the first register of the chain.
irq_one_stage == irq_regs[0]

\* MultiReg(u_irq, self.irq)
irq == MultiRegOut(irq_regs)

\* The MultiReg chains after a tick of `domain'.
LevelRegs(domains) ==
    /\ flush_now_regs' = IF FlushOdomain \in domains
                         THEN MultiRegNext(flush_now_regs, in_flush_now)
                         ELSE flush_now_regs
    /\ flush_time_regs' = IF FlushOdomain \in domains
                          THEN MultiRegNext(flush_time_regs, in_flush_time)
                          ELSE flush_time_regs
    /\ irq_regs' = IF IrqOdomain \in domains
                   THEN MultiRegNext(irq_regs, u_irq)
                   ELSE irq_regs

\* The user of NitroMuAcmAsync drives the flush levels in 'sys'.
FlushUserStep ==
    /\ in_flush_now' \in Bit
    /\ in_flush_time' \in Bit

\* The usb core drives u_irq in 'usb_48'.
IrqSourceStep ==
    u_irq' \in Bit

\* History of u_irq as sys samples it; sys and usb are the domains that
\* tick in the step (u_irq' is set by the usb core before this is read).
IrqHistory(sys, usb) ==
    /\ u_irq_hist' = IF sys THEN <<u_irq, u_irq_hist[1]>> ELSE u_irq_hist
    /\ u_irq_stable' = IF usb /\ u_irq' # u_irq THEN 0
                       ELSE IF sys /\ u_irq_stable < 2 THEN u_irq_stable + 1
                       ELSE u_irq_stable

LevelTickSys ==
    /\ LevelRegs({"sys"})
    /\ FlushUserStep
    /\ sys_phase' = ~sys_phase
    /\ UNCHANGED <<u_irq, usb_phase>>
    /\ IrqHistory(TRUE, FALSE)
    /\ UNCHANGED notLevelVars

LevelTickUsb ==
    /\ LevelRegs({"usb_48"})
    /\ IrqSourceStep
    /\ usb_phase' = ~usb_phase
    /\ UNCHANGED <<in_flush_now, in_flush_time, sys_phase>>
    /\ IrqHistory(FALSE, TRUE)
    /\ UNCHANGED notLevelVars

LevelTickBoth ==
    /\ LevelRegs({"sys", "usb_48"})
    /\ FlushUserStep
    /\ IrqSourceStep
    /\ sys_phase' = ~sys_phase
    /\ usb_phase' = ~usb_phase
    /\ IrqHistory(TRUE, TRUE)
    /\ UNCHANGED notLevelVars

LevelReset ==
    /\ in_flush_now = FALSE
    /\ in_flush_time = FALSE
    /\ flush_now_regs = MultiRegReset
    /\ flush_time_regs = MultiRegReset
    /\ u_irq = FALSE
    /\ irq_regs = MultiRegReset
    /\ sys_phase = FALSE
    /\ usb_phase = FALSE
    /\ u_irq_hist = <<FALSE, FALSE>>
    /\ u_irq_stable = 2

(***************************************************************************)
(* migen.genlib.fifo.SyncFIFOBuffered(width, depth): a SyncFIFO without    *)
(* first-word-fall-through (storage `mem', at most depth entries) followed *)
(* by the registered memory output `dout' with its flag `readable'.        *)
(***************************************************************************)
\* fifo_depth of NitroMuAcmBuffered (a construction parameter).
fifo_depth == 1

FifoReset == [mem |-> <<>>, dout |-> [data |-> 0, last |-> FALSE], readable |-> FALSE]

\* writable = (level != depth) of the storage
FifoWritable(f) == Len(f.mem) # fifo_depth

\* fifo.re = fifo.readable & (~readable | re): the storage is read into dout
FifoInnerRe(f, re) == Len(f.mem) # 0 /\ (~f.readable \/ re)

\* One tick: a write is stored only when writable.
FifoNext(f, we, din, re) ==
    LET do_read  == FifoInnerRe(f, re)
        do_write == we /\ FifoWritable(f)
        left     == IF do_read THEN Tail(f.mem) ELSE f.mem
    IN  [mem      |-> IF do_write THEN Append(left, din) ELSE left,
         dout     |-> IF do_read THEN Head(f.mem) ELSE f.dout,
         readable |-> IF do_read THEN TRUE ELSE IF re THEN FALSE ELSE f.readable]

\* The items a FIFO holds, oldest first.
FifoItems(f) == (IF f.readable THEN <<f.dout>> ELSE <<>>) \o f.mem

(***************************************************************************)
(* NitroMuAcmBuffered(sync=False) = fifo_in -> NitroMuAcmAsync.xin -> core *)
(*                                  core -> NitroMuAcmAsync.xout -> fifo_out *)
(***************************************************************************)
\* Number of items the user pushes, and the core emits.
MaxBufItems == 4

\* The k-th item pushed by the user / emitted by the core; the last one
\* carries the boundary marker.
InItem(k)  == [data |-> 64 + k, last |-> (k = MaxBufItems)]
OutItem(k) == [data |-> 96 + k, last |-> (k = MaxBufItems)]

\* User side, ingress
buf_in_data  == InItem(buf_in_idx).data
buf_in_last  == InItem(buf_in_idx).last

\* Variant: in_ready tied high instead of following fifo_in.writable.
buf_in_ready_high == TRUE

\* self.in_ready.eq(fin.writable)
buf_in_ready == FifoWritable(fifo_in)

\* fin.din[0:8].eq(self.in_data), fin.din[8].eq(self.in_last)
fin_din == [data |-> buf_in_data, last |-> buf_in_last]

\* Variant: fifo_in written whenever in_valid, without in_ready.
fin_we_valid_only == buf_in_valid

\* fin.we.eq(self.in_valid & self.in_ready)
fin_we == buf_in_valid /\ buf_in_ready

\* core.in_valid.eq(fin.readable); xin.in_valid.eq(self.in_valid)
async_in_valid == fifo_in.readable

\* self.in_ready.eq(xin.in_ready)
async_in_ready == xin.in_ready

\* Variant: fifo_in popped on the synchronized ack, not on the in_ready pulse.
fin_re_on_ack == async_in_valid /\ xin.ack_sync_in[0]

\* Variant: fifo_in popped whenever it is readable.
fin_re_always == async_in_valid

\* fin.re.eq(core.in_valid & core.in_ready)
fin_re == async_in_valid /\ async_in_ready

\* core.in_data.eq(fin.dout[0:8]) ... core.in_data.eq(xin.out_data)
muacm_in_item == fifo_in.dout

\* core.in_valid.eq(xin.out_valid)
muacm_in_valid == xin.out_valid

\* The muacm core, egress
muacm_out_item == OutItem(muacm_out_idx)

\* core.out_ready.eq(xout.in_ready)
muacm_out_ready == xout.in_ready

\* self.out_valid.eq(xout.out_valid)
async_out_valid == xout.out_valid

\* core.out_ready.eq(fout.writable); xout.out_ready.eq(self.out_ready)
async_out_ready == FifoWritable(fifo_out)

\* fout.din.eq(core.out_data, core.out_last); self.out_data.eq(xout.out_data)
fout_din == muacm_out_item

\* fout.we.eq(core.out_valid & core.out_ready)
fout_we == async_out_valid /\ async_out_ready

\* self.out_valid.eq(fout.readable)
buf_out_valid == fifo_out.readable

\* self.out_data.eq(fout.dout[0:8]), self.out_last.eq(fout.dout[8])
buf_out_item == fifo_out.dout

\* fout.re.eq(self.out_valid & self.out_ready)
fout_re == buf_out_valid /\ buf_out_ready

\* A ready/valid source of the items 1..MaxBufItems in order.  idx is the
\* item on the data lines (the next one to offer while valid is 0).  The
\* result is the set of next values of <<valid, idx>>: an item on offer is
\* held until it is taken.
StreamSourceStep(valid, idx, taken) ==
    LET n == IF valid /\ taken THEN idx + 1 ELSE idx
    IN  IF valid /\ ~taken
        THEN {<<TRUE, idx>>}
        ELSE {<<FALSE, n>>} \cup (IF n <= MaxBufItems THEN {<<TRUE, n>>} ELSE {})

\* 'sys' tick: both FIFOs, the sys halves of xin and xout, the user.
BufSysStep ==
    /\ fifo_in' = FifoNext(fifo_in, fin_we, fin_din, fin_re)
    /\ fifo_out' = FifoNext(fifo_out, fout_we, fout_din, fout_re)
    /\ buf_pushed' = IF buf_in_valid /\ buf_in_ready
                     THEN Append(buf_pushed, fin_din) ELSE buf_pushed
    /\ buf_rcvd' = IF buf_out_valid /\ buf_out_ready
                   THEN Append(buf_rcvd, buf_out_item) ELSE buf_rcvd
    /\ fin_popped' = IF fin_re THEN Append(fin_popped, fifo_in.dout) ELSE fin_popped
    /\ fout_written' = IF fout_we THEN Append(fout_written, fout_din) ELSE fout_written
    /\ \E n \in StreamSourceStep(buf_in_valid, buf_in_idx, buf_in_valid /\ buf_in_ready) :
           buf_in_valid' = n[1] /\ buf_in_idx' = n[2]
    /\ buf_out_ready' \in Bit

\* 'usb_48' tick: the usb_48 halves of xin and xout, the muacm core.
BufUsbStep ==
    /\ core_rcvd' = IF muacm_in_valid /\ muacm_in_ready
                    THEN Append(core_rcvd, muacm_in_item) ELSE core_rcvd
    /\ core_sent' = core_sent + B2N(muacm_out_valid /\ muacm_out_ready)
    /\ \E n \in StreamSourceStep(muacm_out_valid, muacm_out_idx,
                                 muacm_out_valid /\ muacm_out_ready) :
           muacm_out_valid' = n[1] /\ muacm_out_idx' = n[2]
    /\ muacm_in_ready' \in Bit

BufTickSys ==
    /\ BufSysStep
    /\ xin' = XClkTickIn(xin, async_in_valid)
    /\ xout' = XClkTickOut(xout, async_out_ready)
    /\ UNCHANGED <<bufUsbVars, buildVars>>
    /\ UNCHANGED notBufVars

BufTickUsb ==
    /\ BufUsbStep
    /\ xin' = XClkTickOut(xin, muacm_in_ready)
    /\ xout' = XClkTickIn(xout, muacm_out_valid)
    /\ UNCHANGED <<bufSysVars, buildVars>>
    /\ UNCHANGED notBufVars

BufTickBoth ==
    /\ BufSysStep
    /\ BufUsbStep
    /\ xin' = XClkTickBoth(xin, async_in_valid, muacm_in_ready)
    /\ xout' = XClkTickBoth(xout, muacm_out_valid, async_out_ready)
    /\ UNCHANGED buildVars
    /\ UNCHANGED notBufVars

BufRegsReset ==
    /\ buf_in_valid = FALSE
    /\ buf_in_idx = 1
    /\ buf_out_ready = FALSE
    /\ fifo_in = FifoReset
    /\ fifo_out = FifoReset
    /\ xin = XClkReset
    /\ xout = XClkReset
    /\ muacm_in_ready = FALSE
    /\ muacm_out_valid = FALSE
    /\ muacm_out_idx = 1
    /\ buf_pushed = <<>>
    /\ core_rcvd = <<>>
    /\ core_sent = 0
    /\ buf_rcvd = <<>>
    /\ fin_popped = <<>>
    /\ fout_written = <<>>

\* No result of a run with sync=True has been recorded.
NoResult == [valid |-> FALSE, to_core |-> <<>>, to_user |-> <<>>, boot |-> 0]

BufReset ==
    /\ BufRegsReset
    /\ wrapper = "NitroMuAcmBuffered"
    /\ sync = FALSE
    /\ sync_result = NoResult

\* Test bench for the runs with free-running clocks: the core answers, it
\* starts to emit once it has taken all the items of the user.
BufSeqCore == muacm_out_valid' => Len(core_rcvd') = MaxBufItems

BufSeqTickSys == BufTickSys

BufSeqTickUsb == BufTickUsb /\ BufSeqCore

BufSeqTickBoth == BufTickBoth /\ BufSeqCore

\* A sys tick after which the user has out_ready asserted, and a usb_48
\* tick after which the core has in_ready asserted.
UserReadyTick == (BufSeqTickSys \/ BufSeqTickBoth) /\ buf_out_ready'
CoreReadyTick == (BufSeqTickUsb \/ BufSeqTickBoth) /\ muacm_in_ready'

(***************************************************************************)
(* The stream wrappers built with sync=True: the muacm core runs on 'sys'. *)
(*   NitroMuAcmBuffered: core = NitroMuAcmSync, between the two FIFOs      *)
(*   NitroMuAcmUart:     muacm.source/sink connected to the UART endpoints *)
(***************************************************************************)
\* NitroMuAcmBuffered: core.in_valid.eq(fin.readable); core is the muacm
\* instance itself, in_ready is its o_in_ready
sync_core_in_valid == fifo_in.readable
sync_core_in_ready == muacm_in_ready

\* Variant: the FIFO is read whenever it has an item.
sync_fin_re_always == sync_core_in_valid

\* fin.re.eq(core.in_valid & core.in_ready)
sync_fin_re == sync_core_in_valid /\ sync_core_in_ready

\* core.out_valid is the muacm's o_out_valid; core.out_ready.eq(fout.writable)
sync_core_out_valid == muacm_out_valid
sync_core_out_ready == FifoWritable(fifo_out)

\* fout.we.eq(core.out_valid & core.out_ready)
sync_fout_we == sync_core_out_valid /\ sync_core_out_ready

\* self.bootloader_req.eq(core.bootloader_req)
sync_bootloader_req == core_bootloader_req

\* NitroMuAcmUart: self.source.connect(self.muacm.sink).  The UART's source
\* endpoint is driven by the system side (buf_in_valid, item buf_in_idx).
uart_muacm_sink_valid == buf_in_valid
uart_muacm_sink_item  == InItem(buf_in_idx)
uart_source_ready     == muacm_in_ready

\* self.muacm.source.connect(self.sink).  The UART's sink endpoint is read
\* by the system side (ready = buf_out_ready).
uart_sink_valid         == muacm_out_valid
uart_sink_item          == muacm_out_item
uart_muacm_source_ready == buf_out_ready

\* self.bootloader_req.eq(self.muacm.bootloader_req)
uart_bootloader_req == core_bootloader_req

\* The system side and the muacm core after a tick: both are ready/valid
\* sources of their items and drive their ready inputs as they like; the
\* core raises bootloader_req in any cycle.
StreamSyncEnvStep(in_taken, out_taken, boot) ==
    /\ \E n \in StreamSourceStep(buf_in_valid, buf_in_idx, in_taken) :
           buf_in_valid' = n[1] /\ buf_in_idx' = n[2]
    /\ buf_out_ready' \in Bit
    /\ \E n \in StreamSourceStep(muacm_out_valid, muacm_out_idx, out_taken) :
           muacm_out_valid' = n[1] /\ muacm_out_idx' = n[2]
    /\ muacm_in_ready' \in Bit
    /\ core_bootloader_req' \in FreePulseSourceStep(core_bootloader_req, boot_raised)
    /\ boot_raised' = boot_raised + B2N(core_bootloader_req)
    /\ boot_seen' = boot_seen + B2N(boot)

\* What a tick of a sync=True stream wrapper leaves alone: the crossings.
streamSyncUnchanged ==
    <<xin, xout, buildVars, ps_boot_toggle_i, ps_boot_dst, u_sof, ps_sof_toggle_i,
      ps_sof_dst, sof_raised, sof_seen, pulseHistVars, xclkVars, busVars, levelVars>>

\* One tick of sys, NitroMuAcmBuffered(sync=True).
BufSyncTick ==
    /\ wrapper = "NitroMuAcmBuffered"
    /\ fifo_in' = FifoNext(fifo_in, fin_we, fin_din, sync_fin_re)
    /\ fifo_out' = FifoNext(fifo_out, sync_fout_we, fout_din, fout_re)
    /\ buf_pushed' = IF buf_in_valid /\ buf_in_ready
                     THEN Append(buf_pushed, fin_din) ELSE buf_pushed
    /\ core_rcvd' = IF sync_core_in_valid /\ sync_core_in_ready
                    THEN Append(core_rcvd, fifo_in.dout) ELSE core_rcvd
    /\ core_sent' = core_sent + B2N(sync_core_out_valid /\ sync_core_out_ready)
    /\ buf_rcvd' = IF buf_out_valid /\ buf_out_ready
                   THEN Append(buf_rcvd, buf_out_item) ELSE buf_rcvd
    /\ fin_popped' = IF sync_fin_re THEN Append(fin_popped, fifo_in.dout) ELSE fin_popped
    /\ fout_written' = IF sync_fout_we THEN Append(fout_written, fout_din)
                                       ELSE fout_written
    /\ StreamSyncEnvStep(buf_in_valid /\ buf_in_ready,
                         sync_core_out_valid /\ sync_core_out_ready,
                         sync_bootloader_req)
    /\ UNCHANGED streamSyncUnchanged

\* One tick of sys, NitroMuAcmUart(sync=True): no register of the wrapper.
UartSyncTick ==
    /\ wrapper = "NitroMuAcmUart"
    /\ buf_pushed' = IF buf_in_valid /\ uart_source_ready
                     THEN Append(buf_pushed, InItem(buf_in_idx)) ELSE buf_pushed
    /\ core_rcvd' = IF uart_muacm_sink_valid /\ muacm_in_ready
                    THEN Append(core_rcvd, uart_muacm_sink_item) ELSE core_rcvd
    /\ core_sent' = core_sent + B2N(muacm_out_valid /\ uart_muacm_source_ready)
    /\ buf_rcvd' = IF uart_sink_valid /\ buf_out_ready
                   THEN Append(buf_rcvd, uart_sink_item) ELSE buf_rcvd
    /\ StreamSyncEnvStep(buf_in_valid /\ uart_source_ready,
                         muacm_out_valid /\ uart_muacm_source_ready,
                         uart_bootloader_req)
    /\ UNCHANGED <<fifo_in, fifo_out, fin_popped, fout_written>>
    /\ UNCHANGED streamSyncUnchanged

(***************************************************************************)
(* The stream wrappers built with sync=False, with their bootloader_req    *)
(* crossing.                                                               *)
(*   NitroMuAcmBuffered: the FIFOs around NitroMuAcmAsync (xin, xout,      *)
(*                       ps_boot)                                          *)
(*   NitroMuAcmUart:     x_tx (sys -> usb_48), x_rx (usb_48 -> sys) and    *)
(*                       boot_req_xclk.  The NitroMuAcmXClk of litex.py    *)
(*                       has the registers and equations of the one of     *)
(*                       migen.py under other names (send_snk = send_in,   *)
(*                       ack_src = ack_out, ...): x_tx is held in xin,     *)
(*                       x_rx in xout, boot_req_xclk in ps_boot.           *)
(***************************************************************************)
\* usb_48 side of the bootloader_req crossing; the core raises
\* bootloader_req in any cycle.
BootUsbRegs ==
    /\ ps_boot_toggle_i' = PulseSrcNext(ps_boot_toggle_i, ps_boot_i)
    /\ core_bootloader_req' \in FreePulseSourceStep(core_bootloader_req, boot_raised)
    /\ boot_raised' = boot_raised + B2N(core_bootloader_req)

\* sys side of the bootloader_req crossing.
BootSysRegs ==
    /\ ps_boot_dst' = PulseDstNext(ps_boot_dst, ps_boot_toggle_i)
    /\ boot_seen' = boot_seen + B2N(bootloader_req)

\* What a tick of a stream wrapper with its bootloader_req crossing leaves
\* alone.
notStreamVars == <<sofVars, xclkVars, busVars, levelVars>>

\* NitroMuAcmUart(sync=False): self.source.connect(x_tx.sink).  The UART's
\* source endpoint is driven by the system side (buf_in_valid, buf_in_idx).
x_tx_sink_valid == buf_in_valid
x_tx_sink_item  == InItem(buf_in_idx)
x_tx_sink_ready == xin.in_ready

\* x_tx.source.connect(self.muacm.sink): the core sees valid of x_tx, and
\* the item on x_tx.sink since data is straight across; it answers with
\* muacm_in_ready.
x_tx_source_valid == xin.out_valid

\* self.muacm.source.connect(x_rx.sink): the core offers muacm_out_item
\* with muacm_out_valid and is answered by ready of x_rx.
x_rx_sink_ready == xout.in_ready

\* x_rx.source.connect(self.sink): the UART's sink endpoint is read by the
\* system side (ready = buf_out_ready); data is straight across x_rx.
x_rx_source_valid == xout.out_valid

\* 'sys' tick of NitroMuAcmUart(sync=False): the system side.
UartSysStep ==
    /\ buf_pushed' = IF x_tx_sink_valid /\ x_tx_sink_ready
                     THEN Append(buf_pushed, x_tx_sink_item) ELSE buf_pushed
    /\ buf_rcvd' = IF x_rx_source_valid /\ buf_out_ready
                   THEN Append(buf_rcvd, muacm_out_item) ELSE buf_rcvd
    /\ \E n \in StreamSourceStep(buf_in_valid, buf_in_idx,
                                 x_tx_sink_valid /\ x_tx_sink_ready) :
           buf_in_valid' = n[1] /\ buf_in_idx' = n[2]
    /\ buf_out_ready' \in Bit
    /\ UNCHANGED <<fifo_in, fifo_out, fin_popped, fout_written>>

\* 'usb_48' tick of NitroMuAcmUart(sync=False): the muacm core.
UartUsbStep ==
    /\ core_rcvd' = IF x_tx_source_valid /\ muacm_in_ready
                    THEN Append(core_rcvd, x_tx_sink_item) ELSE core_rcvd
    /\ core_sent' = core_sent + B2N(muacm_out_valid /\ x_rx_sink_ready)
    /\ \E n \in StreamSourceStep(muacm_out_valid, muacm_out_idx,
                                 muacm_out_valid /\ x_rx_sink_ready) :
           muacm_out_valid' = n[1] /\ muacm_out_idx' = n[2]
    /\ muacm_in_ready' \in Bit

\* Test bench of the runs that compare the builds: the item streams and
\* the bootloader requests share no register, so the core raises
\* bootloader_req once all the items have been passed in both directions.
BuildsSeqCore ==
    core_bootloader_req' =>
        Len(core_rcvd') = MaxBufItems /\ Len(buf_rcvd') = MaxBufItems

\* One tick of sys of a build with sync=True.
BufBuildsSyncTick == sync /\ BufSyncTick /\ BuildsSeqCore

UartBuildsSyncTick == sync /\ UartSyncTick /\ BuildsSeqCore

\* NitroMuAcmBuffered(sync=False)
BufAsyncTickSys ==
    /\ ~sync /\ wrapper = "NitroMuAcmBuffered"
    /\ BufSysStep
    /\ xin' = XClkTickIn(xin, async_in_valid)
    /\ xout' = XClkTickOut(xout, async_out_ready)
    /\ BootSysRegs
    /\ PulseHistory(TRUE, FALSE)
    /\ UNCHANGED <<bufUsbVars, buildVars, bootUsbVars, notStreamVars>>

BufAsyncTickUsb ==
    /\ ~sync /\ wrapper = "NitroMuAcmBuffered"
    /\ BufUsbStep
    /\ xin' = XClkTickOut(xin, muacm_in_ready)
    /\ xout' = XClkTickIn(xout, muacm_out_valid)
    /\ BootUsbRegs
    /\ PulseHistory(FALSE, TRUE)
    /\ UNCHANGED <<bufSysVars, buildVars, bootSysVars, notStreamVars>>
    /\ BuildsSeqCore

BufAsyncTickBoth ==
    /\ ~sync /\ wrapper = "NitroMuAcmBuffered"
    /\ BufSysStep
    /\ BufUsbStep
    /\ xin' = XClkTickBoth(xin, async_in_valid, muacm_in_ready)
    /\ xout' = XClkTickBoth(xout, muacm_out_valid, async_out_ready)
    /\ BootSysRegs
    /\ BootUsbRegs
    /\ PulseHistory(TRUE, TRUE)
    /\ BuildsSeqCore
    /\ UNCHANGED <<buildVars, notStreamVars>>

\* NitroMuAcmUart(sync=False)
UartAsyncTickSys ==
    /\ ~sync /\ wrapper = "NitroMuAcmUart"
    /\ UartSysStep
    /\ xin' = XClkTickIn(xin, x_tx_sink_valid)
    /\ xout' = XClkTickOut(xout, buf_out_ready)
    /\ BootSysRegs
    /\ PulseHistory(TRUE, FALSE)
    /\ UNCHANGED <<bufUsbVars, buildVars, bootUsbVars, notStreamVars>>

UartAsyncTickUsb ==
    /\ ~sync /\ wrapper = "NitroMuAcmUart"
    /\ UartUsbStep
    /\ xin' = XClkTickOut(xin, muacm_in_ready)
    /\ xout' = XClkTickIn(xout, muacm_out_valid)
    /\ BootUsbRegs
    /\ PulseHistory(FALSE, TRUE)
    /\ UNCHANGED <<buf_in_valid, buf_in_idx, buf_out_ready, fifo_in, fifo_out,
                   buf_pushed, buf_rcvd, fin_popped, fout_written>>
    /\ UNCHANGED <<buildVars, bootSysVars, notStreamVars>>
    /\ BuildsSeqCore

UartAsyncTickBoth ==
    /\ ~sync /\ wrapper = "NitroMuAcmUart"
    /\ UartSysStep
    /\ UartUsbStep
    /\ xin' = XClkTickBoth(xin, x_tx_sink_valid, muacm_in_ready)
    /\ xout' = XClkTickBoth(xout, muacm_out_valid, buf_out_ready)
    /\ BootSysRegs
    /\ BootUsbRegs
    /\ PulseHistory(TRUE, TRUE)
    /\ BuildsSeqCore
    /\ UNCHANGED <<buildVars, notStreamVars>>

\* Both sources have had all their items taken, no FIFO holds an item, the
\* core has raised all its bootloader requests and no toggle is on its way
\* through the bootloader_req crossing.
StreamSettled ==
    /\ buf_in_idx = MaxBufItems + 1
    /\ muacm_out_idx = MaxBufItems + 1
    /\ FifoItems(fifo_in) = <<>>
    /\ FifoItems(fifo_out) = <<>>
    /\ boot_raised = MaxPulses
    /\ ps_boot_dst.regs[0] = ps_boot_toggle_i
    /\ ps_boot_dst.regs[1] = ps_boot_toggle_i
    /\ ps_boot_dst.toggle_o_r = ps_boot_toggle_i

\* The same wrapper is built again with sync=False: what the run with
\* sync=True delivered is recorded and every register is back in reset.
Rebuild ==
    /\ sync /\ StreamSettled
    /\ sync' = FALSE
    /\ sync_result' = [valid |-> TRUE, to_core |-> core_rcvd,
                       to_user |-> buf_rcvd, boot |-> boot_seen]
    /\ buf_in_valid' = FALSE /\ buf_in_idx' = 1 /\ buf_out_ready' = FALSE
    /\ fifo_in' = FifoReset /\ fifo_out' = FifoReset
    /\ xin' = XClkReset /\ xout' = XClkReset
    /\ muacm_in_ready' = FALSE /\ muacm_out_valid' = FALSE /\ muacm_out_idx' = 1
    /\ buf_pushed' = <<>> /\ core_rcvd' = <<>> /\ core_sent' = 0 /\ buf_rcvd' = <<>>
    /\ fin_popped' = <<>> /\ fout_written' = <<>>
    /\ core_bootloader_req' = FALSE /\ ps_boot_toggle_i' = FALSE
    /\ ps_boot_dst' = PulseDstReset
    /\ boot_raised' = 0 /\ boot_seen' = 0
    /\ UNCHANGED <<wrapper, pulseHistVars, notStreamVars>>

\* The bridge with a test bench of fixed data: the initiator writes
\* 0x00001234, the endpoint interface and the responder return 0.  The
\* addresses, directions and timings stay free.
BusSeqSys == ep_rx_data_1' = Word(0, 0) /\ bus'.dat_w = Word(0, 4660)

BusSeqUsb == ub_rdata' = 0

BusSeqTickSys == BusTickSys /\ BusSeqSys

BusSeqTickUsb == BusTickUsb /\ BusSeqUsb

BusSeqTickBoth == BusTickBoth /\ BusSeqSys /\ BusSeqUsb

\* A usb_48 tick after which the responder has ub_ack asserted.
ResponderAckTick == (BusSeqTickUsb \/ BusSeqTickBoth) /\ ub_ack'

(***************************************************************************)
(* Configuration mismatch: a NitroMuAcmXClk and an asynchronous NitroUSB   *)
(* bridge built for two domains, with both domains driven by one clock.    *)
(***************************************************************************)
\* The producer has presented all its items and seen them accepted.
StreamDone == Len(presented) = MaxItems /\ accepted = MaxItems

\* The k-th item of the test bench: 0x41, 0x42, 0x43, 0x41, ...; the
\* boundary marker is set on the final one.
LockItem(k) == [data |-> 65 + ((k + 2) % 3), last |-> (k = MaxItems)]

\* What the producer has on in_data/in_last after the step: the item it
\* presented latest.
LockProducerItems ==
    LET k == IF presented' = <<>> THEN 1 ELSE Len(presented')
    IN  in_data' = LockItem(k).data /\ in_last' = LockItem(k).last

\* One tick of the shared clock: every register of both domains of both
\* primitives samples the values from before the tick.  The test bench
\* runs the stream first; the initiator starts once the producer is done.
LockTick ==
    /\ xclk' = XClkTickBoth(xclk, in_valid, out_ready)
    /\ ProducerStep
    /\ LockProducerItems
    /\ ConsumerStep
    /\ BusSysRegs
    /\ InitiatorStep(TRUE)
    /\ (StreamDone \/ ~bus'.cyc)
    /\ BusUsbRegs
    /\ ResponderStep
    /\ BusHistory(TRUE, TRUE)
    /\ UNCHANGED <<pulseVars, levelVars, bufVars>>

(***************************************************************************)
(* The stand-alone crossing with the test bench's fixed item sequence.     *)
(***************************************************************************)
\* The producer's data bytes follow the fixed sequence; it sets the
\* boundary marker as it likes.
SeqProducerData ==
    LET k == IF presented' = <<>> THEN 1 ELSE Len(presented')
    IN  in_data' = LockItem(k).data

SeqTickIn == XTickIn /\ SeqProducerData

SeqTickOut == XTickOut

SeqTickBoth == XTickBoth /\ SeqProducerData

\* An out tick after which the consumer has out_ready asserted.
ConsumerReadyTick == (SeqTickOut \/ SeqTickBoth) /\ out_ready'

(***************************************************************************)
(* A design with both primitives on the same two clocks: a NitroMuAcmXClk  *)
(* from sys (in_) to usb_48 (out) next to an asynchronous NitroUSB bridge. *)
(* The clocks are unrelated; the test bench runs the stream first.         *)
(***************************************************************************)
DomTickSys ==
    /\ xclk' = XClkTickIn(xclk, in_valid)
    /\ ProducerStep
    /\ LockProducerItems
    /\ UNCHANGED <<out_ready, delivered>>
    /\ BusSysRegs
    /\ InitiatorStep(TRUE)
    /\ (StreamDone \/ ~bus'.cyc)
    /\ BusHistory(TRUE, FALSE)
    /\ UNCHANGED busUsbVars
    /\ UNCHANGED <<pulseVars, levelVars, bufVars>>

DomTickUsb ==
    /\ xclk' = XClkTickOut(xclk, out_ready)
    /\ ConsumerStep
    /\ UNCHANGED <<in_valid, in_data, in_last, presented, accepted>>
    /\ BusUsbRegs
    /\ ResponderStep
    /\ BusHistory(FALSE, TRUE)
    /\ UNCHANGED busSysVars
    /\ UNCHANGED <<pulseVars, levelVars, bufVars>>

DomTickBoth ==
    /\ xclk' = XClkTickBoth(xclk, in_valid, out_ready)
    /\ ProducerStep
    /\ LockProducerItems
    /\ ConsumerStep
    /\ BusSysRegs
    /\ InitiatorStep(TRUE)
    /\ (StreamDone \/ ~bus'.cyc)
    /\ BusUsbRegs
    /\ ResponderStep
    /\ BusHistory(TRUE, TRUE)
    /\ UNCHANGED <<pulseVars, levelVars, bufVars>>

(***************************************************************************)
(* NitroUSB, sync=True: the usb core runs on 'sys' and the bridge is the   *)
(* `if sync:' branch, wires only.                                          *)
(***************************************************************************)
\* ub_addr.eq(self.bus.adr[0:12]), ub_wdata.eq(self.bus.dat_w[0:16]),
\* ub_we.eq(self.bus.we), ub_cyc.eq(b_cyc_core)
sync_ub_addr  == bus.adr % 4096
sync_ub_wdata == bus.dat_w.lo
sync_ub_we    == bus.we
sync_ub_cyc   == b_cyc_core

\* b_rdata_core[0:16].eq(ub_rdata)
sync_b_rdata_core == ub_rdata

\* Variant: the acknowledge still comes from the ps_ack synchronizer.
sync_b_ack_core_crossed == hs_ack

\* b_ack_core.eq(ub_ack)
sync_b_ack_core == ub_ack

\* self.irq.eq(u_irq), self.sof.eq(u_sof)
sync_irq == u_irq
sync_sof == u_sof

\* Bus muxing (comb), with the wires of the sync branch
sync_bus_ack   == sync_b_ack_core \/ b_ack_ep
sync_bus_dat_r == IF b_ack_ep THEN b_rdata_ep ELSE Word(0, sync_b_rdata_core)

\* The Wishbone initiator after a sys tick, waiting for `ack': as
\* InitiatorStep(TRUE), with the acknowledge of the sync branch.
SyncInitiatorStep(ack) ==
    \/ \* idle
       /\ ~bus.cyc
       /\ bus' = bus
    \/ \* idle; start a transaction
       /\ ~bus.cyc
       /\ bus' \in NewTransaction
    \/ \* waiting for bus.ack: hold
       /\ bus.cyc /\ ~ack
       /\ bus' = bus
    \/ \* acknowledged; release the bus
       /\ bus.cyc /\ ack
       /\ bus' = [bus EXCEPT !.cyc = FALSE, !.stb = FALSE]
    \/ \* acknowledged; next transaction back to back
       /\ bus.cyc /\ ack
       /\ bus' \in NewTransaction

\* The usb core on 'sys': ub_ack only in a cycle with wb_cyc (= ub_cyc =
\* b_cyc_core of that cycle); ub_rdata, u_irq and u_sof are anything.
SyncCoreStep ==
    /\ ub_ack' \in (IF bus'.cyc /\ bus'.stb /\ ~AdrBit13(bus'.adr) THEN Bit ELSE {FALSE})
    /\ ub_rdata' \in RDatas
    /\ u_irq' \in Bit
    /\ u_sof' \in Bit

\* One tick of the only clock.  The registers of the `else:' branch do not
\* exist in this build; b_ack_ep is the only register of the wrapper.
BusSyncTick ==
    /\ b_ack_ep' = b_ack_ep_next
    /\ ep_rx_data_1' \in EpDatas
    /\ SyncInitiatorStep(sync_bus_ack)
    /\ SyncCoreStep
    /\ unseen' = unseen + B2N(ub_ack) - B2N(sync_b_ack_core)
    /\ acked_rdata' = IF ub_ack THEN ub_rdata ELSE acked_rdata
    /\ UNCHANGED <<hs_cyc_d, hs_ack_d, ps_req_toggle_i, ps_ack_dst, issued,
                   ub_cyc, b_rdata_core, ps_req_dst, ps_ack_toggle_i,
                   inflight, ubcycs, first_cycle>>
    /\ UNCHANGED <<core_bootloader_req, ps_boot_toggle_i, boot_raised,
                   ps_sof_toggle_i, sof_raised, pulseSysVars, pulseHistVars>>
    /\ UNCHANGED <<in_flush_now, in_flush_time, flush_now_regs, flush_time_regs,
                   irq_regs, sys_phase, usb_phase, u_irq_hist, u_irq_stable>>
    /\ UNCHANGED <<xclkVars, bufVars>>

(***************************************************************************)
(* Specifications.  Each one runs one component with its environment and   *)
(* leaves the registers of the others in reset.                            *)
(***************************************************************************)
Init == XClkInit /\ BusParked /\ PulseReset /\ LevelReset /\ BufReset

Next == XClkNext

\* The stand-alone stream crossing with a compliant producer.
Spec == Init /\ [][Next]_vars

BusInit == BusReset /\ XClkParked /\ PulseReset /\ LevelReset /\ BufReset

BusNext == BusTickSys \/ BusTickUsb \/ BusTickBoth

\* The asynchronous NitroUSB bridge with a protocol-compliant initiator.
SpecBus == BusInit /\ [][BusNext]_vars

BusOverlapNext == BusOverlapTickSys \/ BusTickUsb \/ BusOverlapTickBoth

\* The asynchronous NitroUSB bridge with an initiator that keeps cyc/stb
\* asserted but puts a new transaction on adr/we/dat_w while one is pending.
SpecBusOverlap == BusInit /\ [][BusOverlapNext]_vars

BusStallNext == BusTickSys \/ BusStallTickUsb \/ BusStallTickBoth

\* The asynchronous NitroUSB bridge with a usb core that never acknowledges.
SpecBusStall == BusInit /\ [][BusStallNext]_vars

PulseInit == PulseReset /\ XClkParked /\ BusParked /\ LevelReset /\ BufReset

PulseNext == PulseTickUsb \/ PulseTickSys \/ PulseTickBoth

\* The two pulse crossings with sources that observe the re-arm rule.
SpecPulse == PulseInit /\ [][PulseNext]_vars

PulseFreeNext == PulseFreeTickUsb \/ PulseTickSys \/ PulseFreeTickBoth

\* The two pulse crossings with sources that ignore the re-arm rule.
SpecPulseFree == PulseInit /\ [][PulseFreeNext]_vars

LevelInit == LevelReset /\ XClkParked /\ BusParked /\ PulseReset /\ BufReset

LevelNext == LevelTickSys \/ LevelTickUsb \/ LevelTickBoth

\* The three level crossings.
SpecLevel == LevelInit /\ [][LevelNext]_vars

BufInit == BufReset /\ XClkParked /\ BusParked /\ PulseReset /\ LevelReset

BufNext == BufTickSys \/ BufTickUsb \/ BufTickBoth

\* NitroMuAcmBuffered(sync=False) with its user and the muacm core.
SpecBuf == BufInit /\ [][BufNext]_vars

\* NitroMuAcmBuffered(sync=False) with free-running clocks, a user that
\* asserts out_ready again and again and a core that asserts in_ready
\* again and again.
BufLiveNext == BufSeqTickSys \/ BufSeqTickUsb \/ BufSeqTickBoth

SpecBufLive ==
    /\ BufInit
    /\ [][BufLiveNext]_vars
    /\ WF_vars(BufSeqTickSys \/ BufSeqTickBoth)
    /\ WF_vars(BufSeqTickUsb \/ BufSeqTickBoth)
    /\ SF_vars(UserReadyTick)
    /\ SF_vars(CoreReadyTick)

StreamSyncInit ==
    /\ BufRegsReset
    /\ wrapper \in {"NitroMuAcmBuffered", "NitroMuAcmUart"}
    /\ sync = TRUE
    /\ sync_result = NoResult
    /\ XClkParked /\ BusParked /\ PulseReset /\ LevelReset

StreamSyncNext == BufSyncTick \/ UartSyncTick

\* NitroMuAcmBuffered(sync=True) or NitroMuAcmUart(sync=True) with the
\* system side and the muacm core on one clock.
SpecStreamSync == StreamSyncInit /\ [][StreamSyncNext]_vars

BuildsNext ==
    \/ BufBuildsSyncTick \/ UartBuildsSyncTick
    \/ Rebuild
    \/ BufAsyncTickSys \/ BufAsyncTickUsb \/ BufAsyncTickBoth
    \/ UartAsyncTickSys \/ UartAsyncTickUsb \/ UartAsyncTickBoth

\* A stream wrapper built with sync=True runs on one clock until it has
\* passed everything; then the same wrapper, built with sync=False, runs
\* on two clocks with the same system side and the same core.
SpecStreamBuilds == StreamSyncInit /\ [][BuildsNext]_vars

LockInit == XClkInit /\ in_data = 65 /\ ~in_last /\ BusReset /\ PulseReset /\ LevelReset /\ BufReset

LockNext == LockTick

\* NitroMuAcmXClk and the asynchronous NitroUSB bridge on one shared clock.
SpecLock == LockInit /\ [][LockNext]_vars

\* The asynchronous bridge with free-running clocks and a responder that
\* acknowledges: a usb_48 tick that asserts ub_ack is possible whenever
\* ub_cyc is pending, and is eventually taken.
BusLiveNext == BusSeqTickSys \/ BusSeqTickUsb \/ BusSeqTickBoth

SpecBusLive ==
    /\ BusInit
    /\ [][BusLiveNext]_vars
    /\ WF_vars(BusSeqTickSys \/ BusSeqTickBoth)
    /\ WF_vars(BusSeqTickUsb \/ BusSeqTickBoth)
    /\ SF_vars(ResponderAckTick)

\* The stand-alone crossing with free-running clocks: each domain ticks
\* again and again, and the consumer asserts out_ready again and again.
LiveInit == Init /\ in_data = 65

LiveNext == SeqTickIn \/ SeqTickOut \/ SeqTickBoth

SpecLive ==
    /\ LiveInit
    /\ [][LiveNext]_vars
    /\ WF_vars(SeqTickIn \/ SeqTickBoth)
    /\ WF_vars(SeqTickOut \/ SeqTickBoth)
    /\ SF_vars(ConsumerReadyTick)

\* The stand-alone crossing with a producer that may withdraw in_valid.
XFreeNext == XFreeTickIn \/ XFreeTickOut \/ XFreeTickBoth

SpecXFree == Init /\ [][XFreeNext]_vars

\* Both primitives on two unrelated clocks.
DomInit == LockInit

DomNext == DomTickSys \/ DomTickUsb \/ DomTickBoth

SpecDomains == DomInit /\ [][DomNext]_vars

BusSyncNext == BusSyncTick

\* NitroUSB(sync=True): bridge and usb core on one clock.
SpecBusSync == BusInit /\ [][BusSyncNext]_vars

(***************************************************************************)
(* Properties of the stand-alone NitroMuAcmXClk (specification Spec).      *)
(***************************************************************************)
IsPrefix(s, t) == Len(s) <= Len(t) /\ s = SubSeq(t, 1, Len(s))

\* C1: every item crosses exactly once and in order.  The pairs sampled on
\* the out side with out_valid & out_ready are, in order, the pairs the
\* producer presented: no item is duplicated, reordered or altered; an item
\* the producer saw accepted (in_valid & in_ready) has been delivered, and
\* once the producer is idle everything it presented has been delivered.
C1_ExactlyOnceInOrder ==
    /\ IsPrefix(delivered, presented)
    /\ accepted <= Len(delivered)
    /\ (~in_valid => delivered = presented /\ accepted = Len(presented))

\* C1 witness: [0x41, 0x42, 0x43(last)] pushed, delivered and accepted.
C1_Witness ==
    /\ delivered = << [data |-> 65, last |-> FALSE],
                      [data |-> 66, last |-> FALSE],
                      [data |-> 67, last |-> TRUE] >>
    /\ accepted = 3
    /\ ~in_valid

\* C6: in_ready is asserted only after the destination consumed the item in
\* flight.  In every in_ cycle with in_ready = 1 exactly one more item has
\* been taken on the out side than in_ready cycles have gone by, and the
\* number of items taken on the out side but not yet released to the
\* producer is never more than one.
C6_ReadyAfterConsumed ==
    /\ (xclk.in_ready => in_valid /\ Len(delivered) = accepted + 1)
    /\ Len(delivered) - accepted \in {0, 1}

\* C6 witness: in_ready pulses for the second item, already taken downstream.
C6_Witness ==
    xclk.in_ready /\ accepted = 1 /\ Len(delivered) = 2

\* C7: out_valid is a single-slot buffer.  Once 1 it stays 1 over every
\* step unless out_ready was 1 (never withdrawn without acceptance), and
\* it goes from 0 to 1 only when the first synchronizer stage of send is 1
\* and the second is 0.
C7_SingleSlotValid ==
    [][ /\ (xclk.out_valid /\ ~out_ready => xclk'.out_valid)
        /\ (~xclk.out_valid /\ xclk'.out_valid =>
               xclk.send_sync_out[0] /\ ~xclk.send_sync_out[1]) ]_vars

\* C7 witness: the second item is offered and held under backpressure.
C7_Witness ==
    xclk.out_valid /\ ~out_ready /\ xclk.send_sync_out[1] /\ Len(delivered) = 1

\* C26: offered data is never retracted or altered.  While out_valid is 1
\* the producer still holds the item (in_valid is 1, in_ready is 0), it is
\* the item next in line for delivery, and out_data/out_last do not change
\* over any step that starts with out_valid = 1, the acceptance cycle
\* included; in_ready is pulsed only after the destination's acceptance.
C26_OfferedDataStable ==
    /\ [](xclk.out_valid =>
             /\ in_valid /\ ~xclk.in_ready
             /\ accepted = Len(delivered)
             /\ Len(presented) = Len(delivered) + 1
             /\ out_data = presented[Len(presented)].data
             /\ out_last = presented[Len(presented)].last)
    /\ [][xclk.out_valid => (out_data' = out_data /\ out_last' = out_last)]_vars

\* The third item is offered with its boundary marker and held under
\* back-pressure, the handshake's ack still low.
C26_Witness ==
    /\ xclk.out_valid /\ ~out_ready /\ ~xclk.ack_out
    /\ Len(delivered) = 2
    /\ out_data = 67 /\ out_last

\* C27: in_ready is a one-cycle pulse, once per item.  An in_ tick that
\* starts with in_ready = 1 ends with in_ready = 0 and is the acceptance of
\* the one item the destination took since the previous pulse; in_ready
\* rises only on a tick where the synchronized ack has just risen
\* (ack_sync_in[0] = 1, ack_sync_in[1] = 0), so in the pulse cycle both
\* are 1 and send is already cleared; and at a pulse exactly one more item has been
\* delivered than accepted.
C27_InReadySinglePulse ==
    /\ [](xclk.in_ready =>
             /\ xclk.ack_sync_in[0] /\ xclk.ack_sync_in[1]
             /\ ~xclk.send_in /\ ~xclk.out_valid
             /\ in_valid
             /\ Len(delivered) = accepted + 1)
    /\ [][/\ (xclk.in_ready /\ (XTickIn \/ XTickBoth)) =>
                (~xclk'.in_ready /\ accepted' = accepted + 1
                                /\ Len(delivered') = accepted')
          /\ (~xclk.in_ready /\ xclk'.in_ready) =>
                (xclk.ack_sync_in[0] /\ ~xclk.ack_sync_in[1])]_vars

\* The pulse for the third item, after two earlier pulses.
C27_Witness ==
    xclk.in_ready /\ accepted = 2 /\ Len(delivered) = 3 /\ xclk.ack_out

\* C24: progress.  With both clocks ticking for ever and a consumer that
\* asserts out_ready again and again, the k-th item presented on in_valid
\* is eventually accepted on the in_ side and delivered on the out side,
\* from every reachable state.
C24_Progress ==
    \A k \in 1..MaxItems :
        (Len(presented) >= k) ~> (accepted >= k /\ Len(delivered) >= k)

\* Every item of the run went through and the handshake is back at rest.
C24_Witness ==
    /\ Len(presented) = MaxItems
    /\ accepted = MaxItems
    /\ Len(delivered) = MaxItems
    /\ xclk = XClkReset

\* C23: four-phase send, no cancelling.  Once send is 1 it stays 1 on every
\* step while the synchronized ack (ack_sync_in[0]) is 0, whatever in_valid
\* does; an in_ tick with the synchronized ack at 1 clears it; it is raised
\* only while the synchronized ack is 0; and the destination's ack_out
\* falls only when the destination's sample of send (send_sync_out[0]) is 0.
C23_SendFourPhase ==
    [][/\ (xclk.send_in /\ ~xclk.ack_sync_in[0]) => xclk'.send_in
       /\ ((XFreeTickIn \/ XFreeTickBoth) /\ xclk.ack_sync_in[0]) => ~xclk'.send_in
       /\ (~xclk.send_in /\ xclk'.send_in) => ~xclk.ack_sync_in[0]
       /\ (xclk.ack_out /\ ~xclk'.ack_out) => ~xclk.send_sync_out[0]]_vars

\* The producer withdrew in_valid after send was raised and before any
\* acknowledge; the destination nevertheless offers the item.
C23_Witness ==
    /\ xclk.send_in /\ ~in_valid
    /\ ~xclk.ack_sync_in[0] /\ ~xclk.ack_out
    /\ xclk.out_valid

\* The registers of the two primitives, by the domain that clocks them.
sysDomainRegs == <<xclk.send_in, xclk.ack_sync_in, xclk.in_ready, hs_cyc_d, hs_ack_d>>
usbDomainRegs == <<xclk.send_sync_out, xclk.out_valid, xclk.ack_out, ub_cyc, b_rdata_core>>

\* C22: single writer.  A tick of in_/sys alone leaves send_sync_out,
\* out_valid, ack_out, ub_cyc and b_rdata_core as they were, and a tick of
\* out/usb_48 alone leaves send, ack_sync_in, in_ready, hs_cyc_d and
\* hs_ack_d as they were.
C22_SingleWriter ==
    [][/\ DomTickSys => usbDomainRegs' = usbDomainRegs
       /\ DomTickUsb => sysDomainRegs' = sysDomainRegs]_vars

\* Registers of both domains of both primitives hold non-reset values:
\* the stream has gone through and a bus transaction is being acknowledged.
C22_Witness ==
    /\ Len(delivered) = MaxItems
    /\ hs_cyc_d /\ hs_ack_d
    /\ b_rdata_core = 43981
    /\ ps_req_toggle_i /\ ps_ack_toggle_i

\* The crossing x with the first register that samples the other domain's
\* ack_out (resp. send_in) holding the opposite value.
FlipAckStage0(x) ==
    [x EXCEPT !.ack_sync_in = [i \in 0..1 |-> IF i = 0 THEN ~x.ack_sync_in[0]
                                                       ELSE x.ack_sync_in[1]]]
FlipSendStage0(x) ==
    [x EXCEPT !.send_sync_out = [i \in 0..1 |-> IF i = 0 THEN ~x.send_sync_out[0]
                                                         ELSE x.send_sync_out[1]]]

\* A pulse synchronizer's destination side with the first register flipped.
FlipPulseStage0(dst) ==
    [dst EXCEPT !.regs = [k \in 0..1 |-> IF k = 0 THEN ~dst.regs[0] ELSE dst.regs[1]]]

\* C21: a bit from the other domain goes through two registers before it
\* is used.  The value of the register that samples the other domain
\* directly (ack_sync_in[0], send_sync_out[0], the first register of ps_req
\* and ps_ack) has no influence on the next value of send, in_ready,
\* out_valid and ack_out, nor on ub_cyc's request strobe and bus.ack.
C21_NoFirstStageDependence ==
    /\ send_in_next(FlipAckStage0(xclk), in_valid) = send_in_next(xclk, in_valid)
    /\ in_ready_next(FlipAckStage0(xclk)) = in_ready_next(xclk)
    /\ out_valid_next(FlipSendStage0(xclk), out_ready) = out_valid_next(xclk, out_ready)
    /\ ack_out_next(FlipSendStage0(xclk), out_ready) = ack_out_next(xclk, out_ready)
    /\ PulseOut(FlipPulseStage0(ps_req_dst)) = PulseOut(ps_req_dst)
    /\ PulseOut(FlipPulseStage0(ps_ack_dst)) = PulseOut(ps_ack_dst)

(***************************************************************************)
(* Properties of the asynchronous NitroUSB bridge.                         *)
(***************************************************************************)
\* C2: at most one core transaction is in flight.  Between a request pulse
\* and the sys cycle that sees its acknowledge (hs_ack) there is no second
\* request pulse and ub_cyc does not rise a second time: a request pulse is
\* raised only with nothing in flight, ub_cyc is asserted only for the one
\* transaction in flight, and a request strobe reaches usb_48 only when
\* ub_cyc has not yet risen for it.
C2_OneInFlight ==
    /\ inflight \in {0, 1}
    /\ ubcycs \in {0, 1}
    /\ ubcycs <= inflight
    /\ (ps_req_i => inflight = 0)
    /\ (ub_cyc => ubcycs = 1)
    /\ (ps_req_o => ubcycs = 0 /\ inflight = 1)

\* C2 witness: a second transaction is in flight in usb_48 after a first one
\* was acknowledged with data 0x1234.
C2_Witness ==
    inflight = 1 /\ ub_cyc /\ unseen = 0 /\ acked_rdata = 4660 /\ bus.cyc

\* C3: in the sys cycle where the core acknowledge is asserted, exactly one
\* ub_ack cycle has not yet been seen in sys (the one of this transaction)
\* and bus.dat_r[0:16] is the ub_rdata of that cycle; bits [16:32] are 0.
C3_ReadDataOfThisTransaction ==
    b_ack_core =>
        /\ inflight = 1
        /\ unseen = 1
        /\ bus_dat_r = Word(0, acked_rdata)

\* C3 witness: acknowledge in sys with 0xABCD, while ub_rdata has since
\* changed and the previous content of the holding register was different.
C3_Witness ==
    /\ b_ack_core /\ bus.cyc
    /\ bus_dat_r = Word(0, 43981)
    /\ ub_rdata # 43981

\* C29: the bridge is live.  With both clocks ticking for ever and a
\* responder that eventually acknowledges a pending ub_cyc, a core
\* transaction in its first cycle on the bus, whether it follows an idle
\* bus or the acknowledge of the previous transaction with cyc kept
\* asserted, eventually gets bus.ack.
C29_BridgeLive ==
    (first_cycle /\ b_cyc_core) ~> (b_cyc_core /\ bus_ack)

\* The first cycle of a back-to-back transaction: the previous cycle was
\* the acknowledge of a core transaction (hs_cyc_d and hs_ack_d are 1), cyc
\* stayed asserted and the request is raised through the hs_ack_d term.
C29_Witness ==
    /\ first_cycle /\ b_cyc_core
    /\ hs_cyc_d /\ hs_ack_d /\ ps_req_i
    /\ ~bus_ack

\* bus.adr[13] = 1 selects the endpoint buffers.
EpTransaction == bus.cyc /\ bus.stb /\ AdrBit13(bus.adr)

\* C31: the endpoint path acknowledges locally, one cycle late, once.  In
\* the first cycle of an endpoint transaction b_ack_ep and ep_tx_we_0 are 0;
\* the sys tick of that cycle gives the acknowledge cycle, with the same
\* transaction on the bus and ep_tx_we_0 equal to bus.we; the sys tick of
\* the acknowledge cycle ends the transaction with b_ack_ep and ep_tx_we_0
\* back at 0.  b_ack_ep is 1 only in such an acknowledge cycle and
\* ep_tx_we_0 only there with bus.we set, writing bus.dat_w.
C31_EpAckLocalOnce ==
    /\ []((first_cycle /\ EpTransaction) => (~b_ack_ep /\ ~ep_tx_we_0))
    /\ [](b_ack_ep => (EpTransaction /\ ~first_cycle /\ hs_cyc_d = FALSE))
    /\ [](ep_tx_we_0 => (b_ack_ep /\ bus.we /\ ep_tx_data_0 = bus.dat_w))
    /\ [][/\ ((BusTickSys \/ BusTickBoth) /\ first_cycle /\ EpTransaction) =>
                (b_ack_ep' /\ bus' = bus /\ ~first_cycle' /\ ep_tx_we_0' = bus.we)
          /\ ((BusTickSys \/ BusTickBoth) /\ b_ack_ep) =>
                (~b_ack_ep' /\ ~ep_tx_we_0' /\ (bus'.cyc => first_cycle'))]_vars

\* The write strobe of an endpoint write of 0xDEADBEEF.
C31_Witness ==
    /\ ep_tx_we_0 /\ bus.adr = 8196
    /\ ep_tx_data_0 = Word(57005, 48879)

\* C32: routing is exclusive.  With an endpoint transaction on the bus no
\* request pulse is raised, ub_cyc is 0 and nothing is in flight towards
\* the core; with a core transaction on the bus b_ack_ep is 0; the two
\* acknowledges are never 1 together; and in an acknowledge cycle
\* bus.dat_r is the endpoint read data if the endpoint side acknowledged
\* and the zero-extended core read data of this transaction otherwise.
C32_RoutingExclusive ==
    /\ (EpTransaction =>
          /\ ~ps_req_i /\ ~ps_req_o /\ ~ub_cyc /\ ~b_ack_core
          /\ inflight = 0)
    /\ ((bus.cyc /\ bus.stb /\ ~AdrBit13(bus.adr)) => ~b_ack_ep)
    /\ ~(b_ack_core /\ b_ack_ep)
    /\ (bus_ack => bus.cyc /\ bus.stb)
    /\ (bus_ack /\ AdrBit13(bus.adr) => b_ack_ep /\ bus_dat_r = ep_rx_data_1)
    /\ (bus_ack /\ ~AdrBit13(bus.adr) =>
          b_ack_core /\ bus_dat_r = Word(0, acked_rdata))

\* An endpoint read is acknowledged with 0x12345678 while the core's
\* holding register still has 0xABCD from an earlier core read.
C32_Witness ==
    /\ b_ack_ep /\ ~bus.we
    /\ bus_dat_r = Word(4660, 22136)
    /\ b_rdata_core = 43981

\* C33: the core path narrows the bus.  While usb_48 works on a request
\* (ub_cyc), the address it sees is below 2^12 and differs from the bus
\* address of the request by a multiple of 2^12, and the write data it sees
\* is the low 16 bits of the request's bus.dat_w (0xBEEF for 0xDEADBEEF);
\* in the cycle of the core acknowledge bus.dat_r has the 16-bit ub_rdata
\* of this transaction in bits [0:16] and 0 in bits [16:32].
C33_CorePathNarrows ==
    /\ (ub_cyc =>
          /\ ub_addr \in 0..4095
          /\ \E q \in 0..1 : issued.adr = q * 4096 + ub_addr
          /\ ub_wdata \in 0..65535
          /\ ub_wdata = issued.dat_w.lo
          /\ (issued.dat_w = Word(57005, 48879) => ub_wdata = 48879))
    /\ (b_ack_core =>
          /\ bus_dat_r.hi = 0
          /\ bus_dat_r.lo = acked_rdata
          /\ bus_dat_r.lo \in 0..65535)

\* usb_48 works on a write of 0xDEADBEEF to bus address 0x1004: it sees
\* address 0x004 and data 0xBEEF.
C33_Witness ==
    /\ ub_cyc /\ ub_we
    /\ bus.adr = 4100 /\ ub_addr = 4
    /\ bus.dat_w = Word(57005, 48879) /\ ub_wdata = 48879

\* C28: one acknowledge per core transaction.  b_ack_core is 1 only while
\* a core transaction is on the bus, past its first cycle, with exactly one
\* request and one ub_ack outstanding for it; the sys tick of the
\* acknowledge cycle retires the transaction (nothing is outstanding any
\* more, and what the initiator has on the bus next is a new transaction)
\* and b_ack_core is 0 in the following cycle.
C28_OneAckPerTransaction ==
    /\ [](b_ack_core =>
             /\ b_cyc_core /\ ~first_cycle
             /\ ~ps_req_i
             /\ inflight = 1 /\ unseen = 1)
    /\ [][(b_ack_core /\ (BusTickSys \/ BusTickBoth)) =>
             /\ ~b_ack_core'
             /\ inflight' = 0 /\ unseen' \in {0, 1}
             /\ (bus'.cyc => first_cycle')]_vars

\* The acknowledge of the second core transaction: both toggles have
\* flipped twice.
C28_Witness ==
    /\ b_ack_core /\ hs_cyc_d
    /\ ~ps_req_toggle_i /\ ~ps_ack_toggle_i
    /\ acked_rdata = 4660

\* C5 as stated: while a core transaction is pending (its acknowledge not
\* yet seen in sys) no request pulse is raised and usb_48 sees the address,
\* write-enable and write data of the pending request, not those of a new
\* transaction the initiator has put on the bus.
C5_NewFieldsHidden ==
    inflight = 1 =>
        /\ ~ps_req_i
        /\ ub_addr = issued.adr % 4096
        /\ ub_we = issued.we
        /\ ub_wdata = issued.dat_w.lo

\* C5 amended: with an initiator that keeps cyc/stb asserted on a core
\* address and puts a new transaction on adr/we/dat_w while one is pending,
\* the request pulse of the new transaction is held off until the
\* acknowledge of the pending one has been seen in sys (ub_cyc does not rise
\* again either); ub_addr, ub_we and ub_wdata are wires from the bus and show
\* the new values at once.
C5_PulseHeldOff ==
    /\ (ps_req_i => inflight = 0)
    /\ inflight \in {0, 1}
    /\ ubcycs <= inflight
    /\ ub_addr = bus.adr % 4096 /\ ub_we = bus.we /\ ub_wdata = bus.dat_w.lo

\* C5 witness: read of 0x04 pending in usb_48, write of 0xDEADBEEF to 0x10
\* on the bus, no request pulse.
C5_Witness ==
    /\ inflight = 1 /\ ub_cyc /\ ~ps_req_i
    /\ issued.adr = 4 /\ ~issued.we
    /\ bus.cyc /\ bus.adr = 16 /\ bus.we /\ bus.dat_w = Word(57005, 48879)

\* C17: usb_48 sees the fields of the transaction it serves.  Whenever
\* ub_cyc is 1 the transaction that raised it is the one in flight, no
\* ub_ack of it has happened before this cycle and bus.ack is not asserted
\* (it comes only after ub_ack has cleared ub_cyc); with an initiator that
\* holds its fields until bus.ack, ub_addr, ub_we and ub_wdata are those of
\* the cycle of the request pulse and do not change while ub_cyc stays 1.
C17_FieldsStableWhileUbCyc ==
    /\ [](ub_cyc =>
            /\ inflight = 1 /\ unseen = 0 /\ ~b_ack_core /\ bus.cyc
            /\ ub_addr = issued.adr % 4096
            /\ ub_we = issued.we
            /\ ub_wdata = issued.dat_w.lo)
    /\ [][ub_cyc /\ ub_cyc' =>
            ub_addr' = ub_addr /\ ub_we' = ub_we /\ ub_wdata' = ub_wdata]_vars

\* C17 witness: the usb core acknowledges a write of 0xBEEF to 0x10 after
\* an earlier transaction was acknowledged with 0x1234.
C17_Witness ==
    /\ ub_cyc /\ ub_ack
    /\ ub_addr = 16 /\ ub_we /\ ub_wdata = 48879
    /\ acked_rdata = 4660

\* C18: ub_cyc is the busy state of usb_48.  It goes from 0 to 1 only on a
\* step after a cycle with the request strobe ps_req.o, and every usb_48
\* tick after such a cycle raises it; it goes from 1 to 0 only on a step
\* after a cycle with ub_ack, and every usb_48 tick after such a cycle
\* clears it; with ub_ack = 0 it stays 1.  (A usb_48 tick is seen in the
\* registers of the synchronizers, which change on it in these cycles.)
C18_UbCycHeldUntilAck ==
    [][ /\ (~ub_cyc /\ ub_cyc' => ps_req_o)
        /\ (ps_req_o /\ ps_req_dst' # ps_req_dst => ub_cyc')
        /\ (ub_cyc /\ ~ub_cyc' => ub_ack)
        /\ (ub_ack /\ ps_ack_toggle_i' # ps_ack_toggle_i => ~ub_cyc')
        /\ (ub_cyc /\ ~ub_ack => ub_cyc') ]_vars

\* C18 witness: ub_cyc is held for a second transaction, the request strobe
\* is over and the usb core has not acknowledged yet.
C18_Witness ==
    /\ ub_cyc /\ ~ub_ack /\ ~ps_req_o
    /\ ubcycs = 1 /\ acked_rdata = 43981

\* C19: one request pulse per core transaction.  ps_req.i is 1 exactly in
\* the first cycle of a core transaction (b_cyc_core high after low, or
\* high in the cycle after an acknowledge cycle); then nothing is in
\* flight.  In every other cycle with b_cyc_core high, the acknowledge
\* cycle included, it is 0 and the one request is outstanding.
C19_OnePulsePerTransaction ==
    /\ (ps_req_i <=> (b_cyc_core /\ first_cycle))
    /\ (ps_req_i => inflight = 0)
    /\ (b_cyc_core /\ ~ps_req_i => inflight = 1)
    /\ (b_ack_core => ~ps_req_i)

\* C19 witness: the pulse of a back-to-back transaction, raised in the
\* cycle after the acknowledge cycle of the previous one.
C19_Witness ==
    /\ ps_req_i /\ hs_cyc_d /\ hs_ack_d
    /\ acked_rdata = 4660

\* C20: the holding register changes only on a usb_48 tick that follows a
\* cycle with ub_ack.  It keeps its value on every step taken while ub_cyc
\* is 0 (from the ub_ack until the next request strobe has raised ub_cyc
\* again), while the acknowledge is on its way to sys, and in the sys cycle
\* with the core acknowledge.
C20_RdataHeldAfterAck ==
    [][ /\ (b_rdata_core' # b_rdata_core =>
               ub_ack /\ ps_ack_toggle_i' # ps_ack_toggle_i)
        /\ (~ub_cyc => b_rdata_core' = b_rdata_core)
        /\ (unseen = 1 \/ b_ack_core => b_rdata_core' = b_rdata_core) ]_vars

\* C20 witness: 0xABCD is held while the acknowledge is crossing and
\* ub_rdata has moved on.
C20_Witness ==
    /\ unseen = 1 /\ ~b_ack_core /\ ~ub_cyc
    /\ b_rdata_core = 43981 /\ ub_rdata = 4660
    /\ ps_ack_dst.regs[0] # ps_ack_dst.regs[1]

\* The registers of the bridge, both domains.
bridgeRegs == <<hs_cyc_d, hs_ack_d, b_ack_ep, ps_req_toggle_i, ps_ack_dst,
                ub_cyc, b_rdata_core, ps_req_dst, ps_ack_toggle_i>>

\* C13: no timeout.  With a responder that never asserts ub_ack, a core
\* transaction is never acknowledged (b_ack_core stays 0); while its request
\* is outstanding the initiator keeps cyc asserted and no further request
\* pulse is raised; once ub_cyc is 1 it is 1 after every step, and from
\* then on no register of the bridge and no bus field changes (ub_rdata,
\* an output of the usb core, is not part of the bridge).
C13_StallIsPermanent ==
    /\ [](~b_ack_core /\ inflight \in {0, 1})
    /\ [](inflight = 1 => bus.cyc /\ ~ps_req_i)
    /\ [][ub_cyc => ub_cyc' /\ bridgeRegs' = bridgeRegs /\ bus' = bus]_vars

\* C13 witness: a write to 0x10 is stalled in usb_48 with ub_cyc held, the
\* request synchronizer has settled and ub_rdata has moved on.
C13_Witness ==
    /\ ub_cyc /\ ~ub_ack /\ inflight = 1
    /\ bus.cyc /\ bus.we /\ bus.adr = 16
    /\ hs_cyc_d /\ ~ps_req_o
    /\ ub_rdata = 43981

(***************************************************************************)
(* Properties of the pulse crossings (specification SpecPulse).            *)
(***************************************************************************)
\* Toggles of a pulse crossing that are on their way: flipped at the source
\* and not yet counted as a strobe cycle at the destination.
EdgesInFlight(toggle_i, dst) ==
    B2N(toggle_i # dst.regs[0]) + B2N(dst.regs[0] # dst.regs[1])
        + B2N(dst.regs[1] # dst.toggle_o_r)

\* C30: the bridge keeps the re-arm rule of its two pulse crossings.  In a
\* sys cycle where the request pulse is raised, every earlier flip of the
\* request toggle has gone through the synchronizer in usb_48 and its
\* strobe is over; in a usb_48 cycle where ub_ack is raised, the same holds
\* for the acknowledge toggle in sys; neither crossing ever carries more
\* than one flip.
C30_RearmKeptByBridge ==
    /\ (ps_req_i => EdgesInFlight(ps_req_toggle_i, ps_req_dst) = 0)
    /\ (ps_ack_i => EdgesInFlight(ps_ack_toggle_i, ps_ack_dst) = 0)
    /\ EdgesInFlight(ps_req_toggle_i, ps_req_dst) <= 1
    /\ EdgesInFlight(ps_ack_toggle_i, ps_ack_dst) <= 1

\* The request pulse of a second transaction, back to back: each toggle
\* has flipped once before and the acknowledge was seen one cycle ago.
C30_Witness ==
    /\ ps_req_i /\ hs_ack_d
    /\ ps_req_toggle_i /\ ps_ack_toggle_i

\* C4: pulses raised under the re-arm rule are observed one for one.  For
\* bootloader_req and for sof, the number of sys cycles in which the strobe
\* is 1 plus the toggles still in the synchronizer equals the number of
\* usb_48 cycles in which the source pulse was 1; hence no pulse is lost,
\* none is seen twice, a strobe lasts one sys cycle per pulse, and once the
\* synchronizer has settled the two counts are equal.
C4_SameNumberOfStrobes ==
    /\ boot_seen + EdgesInFlight(ps_boot_toggle_i, ps_boot_dst) = boot_raised
    /\ sof_seen + EdgesInFlight(ps_sof_toggle_i, ps_sof_dst) = sof_raised

\* C4 witness: three bootloader_req pulses and two sof pulses raised, all seen.
C4_Witness ==
    /\ boot_raised = 3 /\ boot_seen = 3
    /\ sof_raised = 2 /\ sof_seen = 2
    /\ ~bootloader_req /\ ~sof

\* No toggle of the crossing is on its way and the source is idle.
PulseSettled(pulse, toggle_i, dst) ==
    ~pulse /\ EdgesInFlight(toggle_i, dst) = 0

\* C12 as stated: when the second of two pulses is raised before the
\* destination has sampled the toggle of the first, the destination emits
\* exactly one strobe for the pair.
C12_PairGivesOneStrobe ==
    /\ (boot_raised = 2 /\ boot_early = 1
          /\ PulseSettled(core_bootloader_req, ps_boot_toggle_i, ps_boot_dst))
        => boot_seen = 1
    /\ (sof_raised = 2 /\ sof_early = 1
          /\ PulseSettled(u_sof, ps_sof_toggle_i, ps_sof_dst))
        => sof_seen = 1

\* C12 amended: an early pulse flips the toggle back.  When that happens on
\* a usb_48 tick on which sys does not sample, the two toggles cancel and
\* the destination emits no strobe for the pair; when sys samples on that
\* very tick it sees both toggles and emits two strobes.  In every state
\* strobe cycles seen + toggles in the synchronizer + 2 * cancelled pairs =
\* pulses raised, so a settled crossing has seen an even number of strobes
\* less than were raised, never one strobe for a pair.
C12_EarlyPulsesCancelInPairs ==
    /\ boot_seen + EdgesInFlight(ps_boot_toggle_i, ps_boot_dst) + 2 * boot_cancelled
           = boot_raised
    /\ sof_seen + EdgesInFlight(ps_sof_toggle_i, ps_sof_dst) + 2 * sof_cancelled
           = sof_raised
    /\ boot_cancelled <= boot_early
    /\ sof_cancelled <= sof_early

\* C12 witness: two bootloader_req pulses, the second early, settled with no
\* strobe seen; two sof pulses, the second early, settled with two strobes.
C12_Witness ==
    /\ boot_raised = 2 /\ boot_early = 1 /\ boot_cancelled = 1 /\ boot_seen = 0
    /\ PulseSettled(core_bootloader_req, ps_boot_toggle_i, ps_boot_dst)
    /\ sof_raised = 2 /\ sof_early = 1 /\ sof_cancelled = 0 /\ sof_seen = 2
    /\ PulseSettled(u_sof, ps_sof_toggle_i, ps_sof_dst)

(***************************************************************************)
(* Properties of the level crossings (specification SpecLevel).            *)
(***************************************************************************)
\* C10: the flush levels seen by the usb_48 core, core.in_flush_now and
\* core.in_flush_time, come from a register chain clocked by usb_48: they
\* change only in a step in which usb_48 ticks.
C10_FlushChangesOnUsb48Ticks ==
    [][ (core_in_flush_now' # core_in_flush_now
           \/ core_in_flush_time' # core_in_flush_time)
        => usb_phase' # usb_phase ]_vars

\* C15: irq is u_irq behind a two-register chain clocked by sys, a level
\* with no change detection.  In every state irq is the value u_irq had at
\* the sys tick before the latest one (0 from reset until two ticks have
\* gone by), and once u_irq has kept its value over two sys ticks irq has
\* that value, for as long as u_irq does not change.
C15_IrqTwoSysTicksLate ==
    /\ irq = u_irq_hist[2]
    /\ (u_irq_stable = 2 => irq = u_irq)

\* C15 witness: u_irq has been 1 for two sys ticks and irq is 1, while the
\* clocks are out of step.
C15_Witness ==
    /\ u_irq /\ irq /\ u_irq_stable = 2
    /\ u_irq_hist = <<TRUE, TRUE>>
    /\ sys_phase # usb_phase

(***************************************************************************)
(* Properties of NitroMuAcmBuffered (specification SpecBuf).               *)
(***************************************************************************)
\* The first n items emitted by the core.
OutSeq(n) == [k \in 1..n |-> OutItem(k)]

\* Number of items the core has put on out_data/out_last so far.
core_offered == IF muacm_out_valid THEN muacm_out_idx ELSE muacm_out_idx - 1

Last(q) == q[Len(q)]

\* C8: the FIFOs do not change the order.  As on the unbuffered channel,
\* where the destination gets the presented items in order (C1), the items
\* the core takes are, in order and without gap or repetition, the items
\* pushed with in_valid & in_ready, and the items delivered with out_valid &
\* out_ready are, in order and without gap or repetition, the items the core
\* emitted.
C8_SameOrderAsUnbuffered ==
    /\ IsPrefix(core_rcvd, buf_pushed)
    /\ IsPrefix(buf_rcvd, OutSeq(core_offered))

\* C8 witness: all items have gone through both FIFOs; the final one is marked.
C8_Witness ==
    /\ core_rcvd = [k \in 1..MaxBufItems |-> InItem(k)]
    /\ buf_rcvd = [k \in 1..MaxBufItems |-> OutItem(k)]
    /\ InItem(MaxBufItems).last /\ ~InItem(1).last

\* Writes and conservation: in_ready is fifo_in's writable and the
\* core-side out_ready is fifo_out's writable; a write is issued only in a
\* cycle with valid and ready, hence only to a writable FIFO; and every item
\* written is either still held by the FIFO, in order, or has been read
\* out: what was pushed is what the core took followed by what fifo_in
\* holds (the head stays in fifo_in until the crossing pulses in_ready), and
\* what the crossing handed over is what the user took followed by what
\* fifo_out holds.
BufWritesConserved ==
    /\ buf_in_ready = FifoWritable(fifo_in)
    /\ async_out_ready = FifoWritable(fifo_out)
    /\ (fin_we => buf_in_valid /\ FifoWritable(fifo_in))
    /\ (fout_we => async_out_valid /\ FifoWritable(fifo_out))
    /\ LET held == FifoItems(fifo_in)
       IN  \/ buf_pushed = core_rcvd \o held
           \/ /\ core_rcvd # <<>> /\ held # <<>>
              /\ Head(held) = Last(core_rcvd)
              /\ buf_pushed = core_rcvd \o Tail(held)
    /\ LET written == buf_rcvd \o FifoItems(fifo_out)
       IN  /\ Len(written) \in {core_sent, core_sent + 1}
           /\ written = OutSeq(Len(written))

\* Every item written to a FIFO is later read out of it: the k-th item
\* pushed by the user is eventually popped from fifo_in, and the k-th item
\* written to fifo_out is eventually taken by the user.
BufReadOut ==
    \A k \in 1..MaxBufItems :
        /\ (Len(buf_pushed) >= k) ~> (Len(fin_popped) >= k)
        /\ (Len(fout_written) >= k) ~> (Len(buf_rcvd) >= k)

\* C9 as stated: a full FIFO backpressures and never drops, every item
\* written is later read out, and the occupancy of a FIFO (the items it
\* holds) never exceeds fifo_depth.
C9_OccupancyWithinDepth ==
    /\ [](/\ BufWritesConserved
          /\ Len(FifoItems(fifo_in)) <= fifo_depth
          /\ Len(FifoItems(fifo_out)) <= fifo_depth)
    /\ BufReadOut

\* C9 amended: a full FIFO backpressures and never drops, every item
\* written is later read out, the storage that drives writable never
\* holds more than fifo_depth entries, and a FIFO never holds more than
\* fifo_depth + 1 items (SyncFIFOBuffered keeps one more in its output
\* register).
C9_BackpressureNoDrop ==
    /\ [](/\ BufWritesConserved
          /\ Len(fifo_in.mem) <= fifo_depth
          /\ Len(fifo_out.mem) <= fifo_depth
          /\ Len(FifoItems(fifo_in)) <= fifo_depth + 1
          /\ Len(FifoItems(fifo_out)) <= fifo_depth + 1)
    /\ BufReadOut

\* C9 witness: every item the user pushed has been read out of fifo_in;
\* fifo_out holds fifo_depth + 1 items and is not writable, so the crossing
\* is held off with the next item of the core, after the user took items.
C9_Witness ==
    /\ Len(fin_popped) = MaxBufItems
    /\ Len(FifoItems(fifo_out)) = fifo_depth + 1
    /\ ~FifoWritable(fifo_out) /\ async_out_valid /\ ~fout_we
    /\ buf_rcvd # <<>>

\* fifo_in holds fifo_depth + 1 items and is not writable while the user
\* offers the next item.
C9_IngressFull ==
    /\ Len(FifoItems(fifo_in)) = fifo_depth + 1
    /\ ~FifoWritable(fifo_in) /\ buf_in_valid /\ ~fin_we

\* An ingress item is on its way through xin: send is raised, or the core
\* took the item and fifo_in has not been popped for it yet.
IngressInFlight == xin.send_in \/ Len(core_rcvd) > Len(fin_popped)

\* C25 (states): fifo_in is popped in exactly the cycles where xin pulses
\* in_ready; the entry popped is the pair the core took for that handshake
\* and nothing else was popped since, so the pops are the core's items,
\* one pop per item; the head stays readable while an item is in flight.
\* Egress: fifo_out is written in a cycle where xout offers the item the
\* core still holds, once per item, before the core sees out_ready, and
\* every out_ready pulse to the core follows exactly one write.
C25_InStep ==
    /\ fin_re = xin.in_ready
    /\ (fin_re => /\ Len(core_rcvd) = Len(fin_popped) + 1
                  /\ fifo_in.dout = Last(core_rcvd))
    /\ IsPrefix(fin_popped, core_rcvd)
    /\ Len(core_rcvd) - Len(fin_popped) \in {0, 1}
    /\ (IngressInFlight => fifo_in.readable)
    /\ (muacm_in_valid => fifo_in.readable /\ Len(core_rcvd) = Len(fin_popped))
    /\ (fout_we => /\ Len(fout_written) = core_sent
                   /\ muacm_out_valid
                   /\ fout_din = OutItem(core_sent + 1))
    /\ fout_written = OutSeq(Len(fout_written))
    /\ Len(fout_written) - core_sent \in {0, 1}
    /\ (muacm_out_ready => muacm_out_valid /\ Len(fout_written) = core_sent + 1)

\* C25: the FIFOs and the crossings stay in step (above), and the head of
\* fifo_in does not change while an ingress item is in flight, except in
\* the step that pops it; the core's egress item does not change from the
\* moment xout raises send until the core sees out_ready.
C25_FifoAndCrossingInStep ==
    /\ []C25_InStep
    /\ [][/\ (IngressInFlight /\ fifo_in'.dout # fifo_in.dout) => fin_re
          /\ ((xout.send_in \/ Len(fout_written) > core_sent)
                 /\ muacm_out_idx' # muacm_out_idx) => muacm_out_ready]_vars

\* The second ingress item is popped while the third waits in fifo_in, and
\* the second egress item has been written and not yet released by the core.
C25_Witness ==
    /\ fin_re /\ Len(fin_popped) = 1 /\ Len(fifo_in.mem) = 1
    /\ Len(fout_written) = 2 /\ core_sent = 1

(***************************************************************************)
(* Properties under a shared clock (specification SpecLock).               *)
(***************************************************************************)
\* C14: with both domains on one clock the crossings stay correct.  The
\* stream crossing delivers the presented items in order, each once, and
\* everything the producer saw accepted; the bridge has at most one
\* transaction and at most one unseen ub_ack in flight, and in the cycle of
\* the core acknowledge exactly one ub_ack is unseen and bus.dat_r carries
\* its ub_rdata.  Latency is still paid: the acknowledge never comes in the
\* first cycle of a transaction.
C14_SharedClockStillCorrect ==
    /\ IsPrefix(delivered, presented)
    /\ accepted <= Len(delivered)
    /\ Len(delivered) - accepted \in {0, 1}
    /\ (~in_valid => delivered = presented /\ accepted = Len(presented))
    /\ inflight \in {0, 1}
    /\ unseen \in {0, 1}
    /\ ubcycs <= inflight
    /\ (b_ack_core =>
           /\ inflight = 1 /\ unseen = 1
           /\ bus_dat_r = Word(0, acked_rdata)
           /\ hs_cyc_d /\ ~ps_req_i)

\* C14 witness: [0x41, 0x42, 0x43(last)] crossed, then a core read is
\* acknowledged with 0xABCD while ub_rdata has moved on.
C14_Witness ==
    /\ delivered = << [data |-> 65, last |-> FALSE],
                      [data |-> 66, last |-> FALSE],
                      [data |-> 67, last |-> TRUE] >>
    /\ StreamDone
    /\ b_ack_core /\ bus.cyc /\ ~bus.we /\ bus.adr = 4
    /\ bus_dat_r = Word(0, 43981)
    /\ ub_rdata # 43981

(***************************************************************************)
(* Properties of NitroUSB(sync=True) (specification SpecBusSync).          *)
(***************************************************************************)
\* C11: with sync=True the bridge is wiring.  In every cycle ub_cyc is
\* b_cyc_core, ub_addr/ub_wdata/ub_we are the bus fields, b_ack_core is
\* ub_ack, b_rdata_core[0:16] is ub_rdata, irq is u_irq and sof is u_sof; no
\* ub_ack cycle is ever waiting to be seen by the initiator: bus.ack is 1 in
\* the very cycle ub_ack is 1, with the ub_rdata of that cycle on bus.dat_r.
C11_SyncDirectWiring ==
    /\ sync_ub_cyc = (bus.cyc /\ bus.stb /\ ~AdrBit13(bus.adr))
    /\ sync_ub_addr = bus.adr % 4096
    /\ sync_ub_wdata = bus.dat_w.lo
    /\ sync_ub_we = bus.we
    /\ sync_b_ack_core = ub_ack
    /\ sync_b_rdata_core = ub_rdata
    /\ sync_irq = u_irq
    /\ sync_sof = u_sof
    /\ unseen = 0
    /\ (ub_ack => sync_ub_cyc /\ sync_bus_ack /\ sync_bus_dat_r = Word(0, ub_rdata))

\* C11 witness: a core read acknowledged with 0xABCD in the cycle of ub_ack,
\* after an earlier acknowledge with other data, irq and sof high.
C11_Witness ==
    /\ ub_ack /\ sync_bus_ack /\ ~b_ack_ep
    /\ bus.cyc /\ ~bus.we /\ bus.adr = 16
    /\ sync_bus_dat_r = Word(0, 43981)
    /\ acked_rdata = 4660
    /\ sync_irq /\ sync_sof

(***************************************************************************)
(* Properties of the stream wrappers built with sync=True and then with    *)
(* sync=False (specification SpecStreamBuilds).                            *)
(***************************************************************************)
\* With sync=True no crossing exists and no item is held outside the FIFOs
\* of NitroMuAcmBuffered: an item is with its producer, in a FIFO, or with
\* its consumer.
SyncNoCrossingState ==
    sync =>
        /\ xin = XClkReset /\ xout = XClkReset
        /\ ps_boot_dst = PulseDstReset /\ ~ps_boot_toggle_i
        /\ (wrapper = "NitroMuAcmBuffered" =>
               /\ buf_pushed = core_rcvd \o FifoItems(fifo_in)
               /\ buf_rcvd \o FifoItems(fifo_out) = OutSeq(core_sent))
        /\ (wrapper = "NitroMuAcmUart" =>
               /\ buf_pushed = core_rcvd
               /\ buf_rcvd = OutSeq(core_sent))

\* The build with sync=False never delivers anything but what the build
\* with sync=True delivered, in the same order, and once it has settled it
\* has delivered all of it, in each direction.
SameItemSequences ==
    ~sync /\ sync_result.valid =>
        /\ IsPrefix(core_rcvd, sync_result.to_core)
        /\ IsPrefix(buf_rcvd, sync_result.to_user)
        /\ (StreamSettled =>
               /\ core_rcvd = sync_result.to_core
               /\ buf_rcvd = sync_result.to_user)

\* C16 as stated: built with sync=True the wrappers have no crossing state,
\* and for the same system side and core the build with sync=False delivers
\* the same item sequences in each direction and the same number of
\* bootloader_req events.
C16_SameBootEvents ==
    /\ SyncNoCrossingState
    /\ SameItemSequences
    /\ (~sync /\ sync_result.valid /\ StreamSettled =>
           boot_seen = sync_result.boot)

\* C16 amended: built with sync=True the wrappers have no crossing state,
\* and for the same system side and core the build with sync=False delivers
\* the same item sequences in each direction; it shows the bootloader_req
\* events of the build with sync=True less two for every pair of requests
\* that cancelled in the pulse crossing, hence the same events when the
\* core's requests keep the re-arm rule of the crossing.
C16_SyncSameContent ==
    /\ SyncNoCrossingState
    /\ SameItemSequences
    /\ (~sync /\ sync_result.valid /\ StreamSettled =>
           /\ boot_seen + 2 * boot_cancelled = sync_result.boot
           /\ (boot_early = 0 => boot_seen = sync_result.boot))

\* C16 witness: NitroMuAcmUart(sync=True) passed all items, the final one
\* marked, and all bootloader requests; NitroMuAcmUart(sync=False) has then
\* passed the same items through x_tx and x_rx and has settled, with no
\* request raised early.
C16_Witness ==
    /\ ~sync /\ sync_result.valid /\ StreamSettled
    /\ wrapper = "NitroMuAcmUart"
    /\ sync_result.to_core = [k \in 1..MaxBufItems |-> InItem(k)]
    /\ sync_result.to_user = [k \in 1..MaxBufItems |-> OutItem(k)]
    /\ sync_result.boot = MaxPulses
    /\ core_rcvd = sync_result.to_core
    /\ buf_rcvd = sync_result.to_user
    /\ boot_early = 0
    /\ boot_seen = MaxPulses

\* NitroMuAcmBuffered(sync=False) has settled after a pair of requests
\* cancelled in ps_boot.
C16_BufferedCancelled ==
    /\ ~sync /\ sync_result.valid /\ StreamSettled
    /\ wrapper = "NitroMuAcmBuffered"
    /\ buf_rcvd = sync_result.to_user
    /\ boot_cancelled = 1
    /\ boot_seen = MaxPulses - 2

=============================================================================
